---- MODULE Spec2Model ----
(***************************************************************************)
(* Model of the Sakumon-Slot logic component (src/launch/slot-logic.js,    *)
(* class SlotLogic), of the game page (src/launch/slot-ranking.js,         *)
(* classes SlotRanking, VideoManager and SlotUI) and of the combination    *)
(* generator of the answer tool (src/dev, class SlotProblemGenerator).     *)
(*                                                                         *)
(* JavaScript values are represented as follows.                           *)
(*   - arrays are sequences; a 0-based index i of the code is element i+1  *)
(*   - null / undefined is the empty sequence None, an object x that may   *)
(*     be null is the one-element sequence Some(x)                         *)
(*   - the template string `${folder}${n}.png` is the pair <<folder, n>>   *)
(*   - Math.random() is a nondeterministic input of the action             *)
(*                                                                         *)
(* Specifications, all from the state the constructor leaves:              *)
(*   Spec         loads of valid documents and selections                  *)
(*   SpecDefects  selections on a table with every kind of unselectable    *)
(*                row                                                      *)
(*   SpecRefs     selections on tables whose rows name reel rows           *)
(*   SpecStore    loads with empty collections, setAns, selections         *)
(*   SpecFiles    Excel and Zip files read while documents are loaded      *)
(*   SpecMapper   reel lists, geometry, row -> position -> row             *)
(*   SpecChoice   selections, judgeAnswer, generateAnswerChoices           *)
(*   SpecGenerator  workbooks read and combined by the answer tool         *)
(*   SpecUI       rounds of the game: spin, stop timeouts, reel stops      *)
(*   SpecRanking  entries added to the ranking lists, lists cleared        *)
(*   SpecVideo    rank-in videos: play promises, ended and error events    *)
(*   SpecGame     games started, interrupted, ended, restarted; countdown  *)
(*   SpecRounds   one game with timeouts and animations in every order     *)
(*   SpecRecord   games, imported ranking files, recorded scores           *)
(***************************************************************************)
EXTENDS Integers, Sequences, FiniteSets, TLC

VARIABLES
    ans,                  \* this.ans
    availableLeftRows,    \* this.availableLeftRows
    availableCenterRows,  \* this.availableCenterRows
    availableRightRows,   \* this.availableRightRows
    isDataLoaded,         \* this.isDataLoaded
    symbolHeight,         \* this.symbolHeight
    visibleRows,          \* this.visibleRows
    currentAnswer,        \* this.currentAnswer
    currentAnsRowNumber,  \* this.currentAnsRowNumber
    recentQuestions,      \* this.recentQuestions
    ret,                  \* the last call: operation, arguments, return value
    picked,               \* history: indices of all successful selections
    everLoaded,           \* history: some load completed without throwing
    fileLoads,            \* loadFromExcelFile and loadFromZipFile calls
                          \* suspended at an await
    workbook,             \* SlotProblemGenerator: this.workbook
    problemsData,         \* SlotProblemGenerator: this.problemsData
    timeLeft,             \* SlotUI: this.timeLeft
    isSpinning,           \* SlotUI: this.isSpinning
    finalPositions,       \* SlotUI: this.finalPositions
    currentQuestions,     \* SlotUI: this.currentQuestions
    currentQuestionData,  \* SlotUI: this.currentQuestionData
    reelStopCompleted,    \* SlotUI: this.reelStopCompleted
    hasFinalizedQuestion, \* SlotUI: this.hasFinalizedQuestion
    answerChoices,        \* SlotUI: visibility and buttons of this.answerChoices
    stopTimeouts,         \* SlotUI: pending stopReel timeouts, one entry a round
    stopAnimations,       \* SlotUI: stop animations that have not ended
    ownCompleted,         \* history: the reels whose stop, begun for the
                          \* question of the last startNextQuestion, completed
    answered,             \* history: selectAnswer calls since the last
                          \* startNextQuestion call
    gameStarted,          \* SlotUI: this.gameStarted
    score,                \* SlotUI: this.score
    gameTimer,            \* SlotUI: this.gameTimer, the handle of an interval
    intervals,            \* the countdown intervals that are active
    hasPlayedRankinGako,  \* SlotUI: this.hasPlayedRankinGako
    resultPopup,          \* style.display of #resultPopup
    rankingButtons,       \* style.display of #rankingButtons
    recordRankingBtn,     \* onclick of #recordRankingBtn: the captured accuracy
    startGames,           \* startGame calls suspended at their await
    nextTimeouts,         \* pending next-question timeouts of selectAnswer
    gameEnded,            \* history: endGame or endGameInterrupted ran, and
                          \* startGame has not been called since
    rankings,             \* SlotRanking: this.rankings
    storedRankings,       \* the localStorage item 'slotRanking'
    isPlaying,            \* VideoManager: this.isPlaying
    hasPlayedOnce,        \* VideoManager: this.hasPlayedOnce
    activeVideos,         \* VideoManager: this.activeVideos
    videoDisplay,         \* style.display of the three video containers
    playPromises,         \* promises of video.play() that are not settled
    popupClosed           \* history: closeResultPopup ran, and
                          \* playBackgroundVideo has not been called since

logicVars == <<ans, availableLeftRows, availableCenterRows, availableRightRows,
               isDataLoaded, symbolHeight, visibleRows, currentAnswer,
               currentAnsRowNumber, recentQuestions>>

vars == <<ans, availableLeftRows, availableCenterRows, availableRightRows,
          isDataLoaded, symbolHeight, visibleRows, currentAnswer,
          currentAnsRowNumber, recentQuestions, ret, picked, everLoaded,
          fileLoads, workbook, problemsData, timeLeft, isSpinning, finalPositions,
          currentQuestions, currentQuestionData, reelStopCompleted,
          hasFinalizedQuestion, answerChoices, stopTimeouts, stopAnimations,
          ownCompleted, answered,
          gameStarted, score, gameTimer, intervals, hasPlayedRankinGako,
          resultPopup, rankingButtons, recordRankingBtn, startGames,
          nextTimeouts, gameEnded, rankings, storedRankings, isPlaying, hasPlayedOnce,
          activeVideos, videoDisplay, playPromises, popupClosed>>

\* the file loads in flight, the state of the generator tool and of the
\* game page
toolVars == <<fileLoads, workbook, problemsData>>
uiVars == <<timeLeft, isSpinning, finalPositions, currentQuestions,
            currentQuestionData, reelStopCompleted, hasFinalizedQuestion,
            answerChoices, stopTimeouts, stopAnimations, ownCompleted,
            answered>>

\* the game around the rounds, the rankings and the rank-in videos
gameVars == <<gameStarted, score, gameTimer, intervals, hasPlayedRankinGako,
              resultPopup, rankingButtons, recordRankingBtn, startGames,
              nextTimeouts, gameEnded>>
rankVars == <<rankings, storedRankings>>
videoVars == <<isPlaying, hasPlayedOnce, activeVideos, videoDisplay,
               playPromises, popupClosed>>
pageVars == <<gameVars, rankVars, videoVars>>

\* the state outside SlotLogic, which no SlotLogic method touches
hostVars == <<toolVars, uiVars, pageVars>>

----------------------------------------------------------------------------
(* Bounds of the model *)

\* rows of the largest answer table
MaxAns == 5
\* length of the longest reel list
MaxReelLen == 30
\* successful selections followed in one behaviour
MaxPicks == 4
MaxQue == 3
\* most callbacks of a kind that are pending at a time: promises of
\* video.play(), suspended startGame calls, timeouts of selectAnswer
MaxPending == 2
\* the seconds of a game whose ticks are single steps
LastSeconds == 1
\* questions asked on the page of a game
MaxRounds == 2

----------------------------------------------------------------------------
(* Program constants *)

maxAttempts == 50
maxRecentQuestions == 3
defaultSymbolHeight == 250
defaultVisibleRows == 1
fallbackPositions == 10
gameSeconds == 120
maxRankingEntries == 15
videoThreshold == 5
timeBonus == 5

queLeftPath == "Que_L_B/"
queCenterPath == "Que_C_B/"
queRightPath == "Que_R_B/"
ansCorrectPath == "Ans_D/"
ansWrong1Path == "Ans_E/"
ansWrong2Path == "Ans_F/"

----------------------------------------------------------------------------
(* JavaScript helpers *)

None == <<>>
Some(x) == <<x>>

\* the score object the constructor and every reset assign
ZeroScore ==
    [totalQuestions |-> 0, consecutiveCorrect |-> 0, correctAnswers |-> 0,
     maxConsecutive |-> 0]

\* the three rank-in videos of VideoManager.videoElements
VideoNames == {"background", "overlay", "topOverlay"}

\* `${folder}${n}.png`
ImagePath(folder, n) == <<folder, n>>

\* the character of a string at a 1-based place
Chr(s, i) == SubSeq(s, i, i)

\* the character U+000B, which no escape of a string denotes
VerticalTab == ""

\* the white space String.prototype.trim and parseInt skip, as far as a
\* string of the model holds it: the characters of one byte
WhiteSpace == {" ", "\t", "\n", VerticalTab, "\f", "\r"}

RECURSIVE TrimStart(_)
TrimStart(s) ==
    IF Len(s) > 0 /\ Chr(s, 1) \in WhiteSpace
    THEN TrimStart(SubSeq(s, 2, Len(s)))
    ELSE s

RECURSIVE TrimEnd(_)
TrimEnd(s) ==
    IF Len(s) > 0 /\ Chr(s, Len(s)) \in WhiteSpace
    THEN TrimEnd(SubSeq(s, 1, Len(s) - 1))
    ELSE s

\* String.prototype.trim
Trim(s) == TrimEnd(TrimStart(s))

DigitStrings == <<"0", "1", "2", "3", "4", "5", "6", "7", "8", "9">>

\* String(n): the decimal digits of a number, with its sign
RECURSIVE String(_)
String(n) ==
    IF n < 0 THEN "-" \o String(0 - n)
    ELSE IF n < 10 THEN DigitStrings[n + 1]
    ELSE String(n \div 10) \o DigitStrings[(n % 10) + 1]

\* the number no string of digits denotes
NaN == None

\* the digits of parseInt, in lower and in upper case, with their values
Digits ==
    [ch \in {"0", "1", "2", "3", "4", "5", "6", "7", "8", "9"} |->
         CHOOSE d \in 0..9 : DigitStrings[d + 1] = ch]
    @@ ("a" :> 10) @@ ("b" :> 11) @@ ("c" :> 12) @@ ("d" :> 13)
    @@ ("e" :> 14) @@ ("f" :> 15)
    @@ ("A" :> 10) @@ ("B" :> 11) @@ ("C" :> 12) @@ ("D" :> 13)
    @@ ("E" :> 14) @@ ("F" :> 15)

\* the value of a character as a digit of the radix, -1 when it is none
DigitValue(ch, radix) ==
    IF ch \in DOMAIN Digits /\ Digits[ch] < radix THEN Digits[ch] ELSE -1

\* the digits of s from place i on, up to the first character that is no
\* digit of the radix: the number read so far and whether a digit was read
RECURSIVE ReadDigits(_, _, _, _, _)
ReadDigits(s, i, radix, number, any) ==
    IF i <= Len(s) /\ DigitValue(Chr(s, i), radix) >= 0
    THEN ReadDigits(s, i + 1, radix,
                    number * radix + DigitValue(Chr(s, i), radix), TRUE)
    ELSE [number |-> number, any |-> any]

\* parseInt of a string without a radix: leading white space is skipped, a
\* sign is read, the prefix 0x or 0X makes the radix 16, and the digits up
\* to the first other character are read; NaN when there is no digit
ParseInt(v) ==
    LET trimmed == TrimStart(v)
        signed == Len(trimmed) > 0 /\ Chr(trimmed, 1) \in {"+", "-"}
        negative == Len(trimmed) > 0 /\ Chr(trimmed, 1) = "-"
        body == IF signed THEN SubSeq(trimmed, 2, Len(trimmed)) ELSE trimmed
        hex == Len(body) >= 2 /\ SubSeq(body, 1, 2) \in {"0x", "0X"}
        read == IF hex THEN ReadDigits(body, 3, 16, 0, FALSE)
                ELSE ReadDigits(body, 1, 10, 0, FALSE)
    IN IF ~ read.any THEN NaN
       ELSE IF negative THEN Some(0 - read.number)
       ELSE Some(read.number)

\* !s for a string, !n for a number
FalsyStr(s) == s = ""
FalsyNum(n) == n = 0

\* Array.prototype.includes
Includes(seq, x) == \E i \in 1..Len(seq) : seq[i] = x

\* Array.prototype.shift: the array without its first element
Shift(seq) == SubSeq(seq, 2, Len(seq))

\* Math.round(a / b) for integers a >= 0, b > 0
RoundDiv(a, b) == (2 * a + b) \div (2 * b)

\* Math.abs
Abs(x) == IF x < 0 THEN -x ELSE x

----------------------------------------------------------------------------
(* Input data *)

\* an answer row as parseAnswerSheetData builds it
AnswerRow(l, c, r, a, e, f, g) ==
    [row_L |-> l, row_C |-> c, row_R |-> r,
     ans |-> a, lie_answer1 |-> e, lie_answer2 |-> f, lie_answer3 |-> g]

\* a selectable row; the unused fourth choice may be blank
GoodRow(i) ==
    AnswerRow(2 + (i % 3), 2 + ((i + 1) % 3), 2 + ((i + 2) % 3),
              "a", "e", "f", IF i % 2 = 0 THEN "" ELSE "g")

\* the nine ways a row can be unselectable
DefectRow(d) ==
    CASE d % 9 = 1 -> AnswerRow(0, 2, 3, "a", "e", "f", "g")
      [] d % 9 = 2 -> AnswerRow(2, 0, 3, "a", "e", "f", "g")
      [] d % 9 = 3 -> AnswerRow(2, 3, 0, "a", "e", "f", "g")
      [] d % 9 = 4 -> AnswerRow(2, 3, 4, " ", "e", "f", "g")
      [] d % 9 = 5 -> AnswerRow(2, 3, 4, "a", "", "f", "g")
      [] d % 9 = 6 -> AnswerRow(2, 3, 4, "a", "e", "  ", "g")
      [] d % 9 = 7 -> AnswerRow(2, 3, 4, "", "e", "f", "g")
      [] d % 9 = 8 -> AnswerRow(2, 3, 4, "a", VerticalTab, "f", "g")
      [] OTHER               -> AnswerRow(2, 3, 4, "a", "e", "", "g")

EmptyTable == <<>>
\* every row selectable
GoodTable == [i \in 1..MaxAns |-> GoodRow(i)]
SmallTable == [i \in 1..2 |-> GoodRow(i)]
\* no row selectable
BlankTable == [i \in 1..3 |-> DefectRow(i + 3)]
\* one row of each unselectable kind, then three selectable rows
DefectTable == [i \in 1..12 |-> IF i <= 9 THEN DefectRow(i) ELSE GoodRow(i)]

\* selectable rows, two of which name a row that RowList(3) does not hold
StrayTable ==
    << AnswerRow(9, 2, 3, "a", "e", "f", "g"), GoodRow(1),
       AnswerRow(2, 3, 9, "a", "e", "f", "") >>

AnsTables == {GoodTable, BlankTable}

\* the row numbers parseRowNumbers yields for a sheet of n data rows
RowList(n) == [i \in 1..n |-> i + 1]
\* the same rows in descending order
DescList(n) == [i \in 1..n |-> n + 2 - i]

\* uploaded JSON documents; a missing key reads as undefined, which
\* setDataFromJson replaces by []
Json(a, l, c, r) ==
    [Ans |-> a, availableLeftRows |-> l, availableCenterRows |-> c,
     availableRightRows |-> r]

\* documents that pass the validation of setDataFromJson
ValidJsonInputs ==
    { Json(a, RowList(3), RowList(3), RowList(3)) : a \in AnsTables }

\* documents with every combination of empty and non-empty collections
StoreTables == {EmptyTable, SmallTable}
StoreLists == {<<>>, RowList(3)}
JsonInputs ==
    { Json(a, l, c, r) :
          a \in StoreTables, l \in StoreLists, c \in StoreLists,
          r \in StoreLists }

----------------------------------------------------------------------------
(* SlotLogic *)

\* isDataReady() on explicit field values
DataReady(loaded, a, l, c, r) ==
    loaded /\ Len(a) > 0 /\ Len(l) > 0 /\ Len(c) > 0 /\ Len(r) > 0

isDataReady ==
    DataReady(isDataLoaded, ans, availableLeftRows, availableCenterRows,
              availableRightRows)

\* setDataFromJson: the four collections are replaced before they are
\* validated; a validation failure throws and leaves isDataLoaded as it was
JsonValid(jsonData) ==
    /\ Len(jsonData.Ans) # 0
    /\ ~ (\/ Len(jsonData.availableLeftRows) = 0
          \/ Len(jsonData.availableCenterRows) = 0
          \/ Len(jsonData.availableRightRows) = 0)

\* LoadedAfterJson with the flag set before the validation
LoadedAfterJson_BeforeValidation(loaded, jsonData) == TRUE

LoadedAfterJson(loaded, jsonData) ==
    IF JsonValid(jsonData) THEN TRUE ELSE loaded

setDataFromJson(jsonData) ==
    /\ ans' = jsonData.Ans
    /\ availableLeftRows' = jsonData.availableLeftRows
    /\ availableCenterRows' = jsonData.availableCenterRows
    /\ availableRightRows' = jsonData.availableRightRows
    /\ isDataLoaded' = LoadedAfterJson(isDataLoaded, jsonData)
    /\ ret' = [op |-> "setDataFromJson", threw |-> ~ JsonValid(jsonData),
                anyEmpty |-> \E f \in DOMAIN jsonData : jsonData[f] = <<>>]
    /\ everLoaded' = (everLoaded \/ JsonValid(jsonData))
    /\ UNCHANGED <<symbolHeight, visibleRows, currentAnswer,
                   currentAnsRowNumber, recentQuestions, picked>>

\* setAns: a value that is not an array is ignored
AnsAfterSet(old, isArray, newAns) == IF isArray THEN newAns ELSE old

setAns(isArray, newAns) ==
    /\ ans' = AnsAfterSet(ans, isArray, newAns)
    /\ ret' = [op |-> "setAns", isArray |-> isArray]
    /\ UNCHANGED <<availableLeftRows, availableCenterRows, availableRightRows,
                   isDataLoaded, symbolHeight, visibleRows, currentAnswer,
                   currentAnsRowNumber, recentQuestions, picked, everLoaded>>

\* A cell of the rows XLSX.utils.sheet_to_json(sheet, {header: 1}) yields is
\* None when the cell is empty, a text or a number. A sheet is the sequence
\* of its rows below the header row, a row the sequence of its cells up to
\* the last cell that is not empty.
Text(s) == [text |-> s]
Number(n) == [number |-> n]

\* parseInt(cell) || 0
ParseIntOrZero(cell) ==
    IF cell = None THEN 0
    ELSE IF "number" \in DOMAIN cell THEN cell.number
    ELSE IF ParseInt(cell.text) = NaN THEN 0
    ELSE ParseInt(cell.text)[1]

\* String(cell || '').trim()
TrimmedString(cell) ==
    IF cell = None THEN ""
    ELSE IF "number" \in DOMAIN cell
    THEN IF cell.number = 0 THEN "" ELSE String(cell.number)
    ELSE Trim(cell.text)

\* parseAnswerSheetData from the i-th row below the header on: a row of
\* fewer than 7 cells is left out
RECURSIVE AnswerSheetDataFrom(_, _, _)
AnswerSheetDataFrom(jsonData, i, data) ==
    IF i > Len(jsonData) THEN data
    ELSE AnswerSheetDataFrom(jsonData, i + 1,
             IF Len(jsonData[i]) >= 7
             THEN Append(data,
                      AnswerRow(ParseIntOrZero(jsonData[i][1]),
                                ParseIntOrZero(jsonData[i][2]),
                                ParseIntOrZero(jsonData[i][3]),
                                TrimmedString(jsonData[i][4]),
                                TrimmedString(jsonData[i][5]),
                                TrimmedString(jsonData[i][6]),
                                TrimmedString(jsonData[i][7])))
             ELSE data)

parseAnswerSheetData(jsonData) == AnswerSheetDataFrom(jsonData, 1, <<>>)

\* parseRowNumbers from the i-th row below the header on: the Excel row
\* numbers of the rows that hold a cell
RECURSIVE RowNumbersFrom(_, _, _)
RowNumbersFrom(jsonData, i, rowNumbers) ==
    IF i > Len(jsonData) THEN rowNumbers
    ELSE RowNumbersFrom(jsonData, i + 1,
             IF Len(jsonData[i]) >= 1 THEN Append(rowNumbers, i + 1)
             ELSE rowNumbers)

parseRowNumbers(jsonData) == RowNumbersFrom(jsonData, 1, <<>>)

\* The sheets of a workbook are read in this order; a sheet the workbook
\* does not hold is None, and reading it throws.
SheetOrder == <<"Ans", "Que_L", "Que_C", "Que_R">>

\* the sheets read before the first missing one: 4 when none is missing
SheetsRead(sheets) ==
    IF \E k \in 1..4 : sheets[SheetOrder[k]] = None
    THEN (CHOOSE k \in 1..4 :
              /\ sheets[SheetOrder[k]] = None
              /\ \A j \in 1..(k - 1) : sheets[SheetOrder[j]] # None) - 1
    ELSE 4

\* the four collections after the assignments of the try block: a
\* collection is replaced when its sheet is read before any throw
WorkbookRead(sheets, a, l, c, r) ==
    [ans |-> IF SheetsRead(sheets) >= 1
             THEN parseAnswerSheetData(sheets.Ans[1]) ELSE a,
     left |-> IF SheetsRead(sheets) >= 2
              THEN parseRowNumbers(sheets.Que_L[1]) ELSE l,
     center |-> IF SheetsRead(sheets) >= 3
                THEN parseRowNumbers(sheets.Que_C[1]) ELSE c,
     right |-> IF SheetsRead(sheets) >= 4
               THEN parseRowNumbers(sheets.Que_R[1]) ELSE r]

\* the try block runs to its end: every sheet is there and the validation
\* finds no empty collection
WorkbookValid(sheets) ==
    /\ SheetsRead(sheets) = 4
    /\ Len(parseAnswerSheetData(sheets.Ans[1])) # 0
    /\ ~ (\/ Len(parseRowNumbers(sheets.Que_L[1])) = 0
          \/ Len(parseRowNumbers(sheets.Que_C[1])) = 0
          \/ Len(parseRowNumbers(sheets.Que_R[1])) = 0)

\* An Excel file: `read' tells whether reading the file fails ("error"),
\* XLSX.read throws ("corrupt") or yields the workbook of `sheets' ("ok").

\* the n-th suspended call leaves the list
Resumed(loads, n) == SubSeq(loads, 1, n - 1) \o SubSeq(loads, n + 1, Len(loads))

\* the n-th suspended call goes on to its next await
Advanced(loads, n, stage) == [loads EXCEPT ![n].stage = stage]

\* the workbook is read into the four collections
readWorkbook(sheets) ==
    \E read \in {WorkbookRead(sheets, ans, availableLeftRows,
                              availableCenterRows, availableRightRows)} :
        /\ ans' = read.ans
        /\ availableLeftRows' = read.left
        /\ availableCenterRows' = read.center
        /\ availableRightRows' = read.right

\* the catch block of loadFromExcelFile and of loadFromZipFile
loadFailed(op) ==
    /\ isDataLoaded' = FALSE
    /\ ret' = [op |-> op, threw |-> TRUE]
    /\ UNCHANGED everLoaded

\* loadFromExcelFile up to its await of readFileAsArrayBuffer
loadFromExcelFile(file) ==
    /\ fileLoads' = Append(fileLoads, [op |-> "loadFromExcelFile",
                                       stage |-> "read", file |-> file])
    /\ ret' = [op |-> "loadFromExcelFile", threw |-> FALSE]
    /\ UNCHANGED <<logicVars, picked, everLoaded>>

\* loadFromExcelFile from that await on, for the n-th suspended call
loadFromExcelFileResumed(n) ==
    LET file == fileLoads[n].file IN
    /\ fileLoads' = Resumed(fileLoads, n)
    /\ IF file.read # "ok"
       THEN /\ loadFailed("loadFromExcelFileResumed")
            /\ UNCHANGED <<ans, availableLeftRows, availableCenterRows,
                           availableRightRows>>
       ELSE /\ readWorkbook(file.sheets)
            /\ IF WorkbookValid(file.sheets)
               THEN /\ isDataLoaded' = TRUE
                    /\ everLoaded' = TRUE
                    /\ ret' = [op |-> "loadFromExcelFileResumed",
                               threw |-> FALSE]
               ELSE loadFailed("loadFromExcelFileResumed")
    /\ UNCHANGED <<symbolHeight, visibleRows, currentAnswer,
                   currentAnsRowNumber, recentQuestions, picked>>

\* A Zip file: `unzip' tells whether JSZip.loadAsync fails ("error") or not
\* ("ok"); `excel' is None when the archive holds no Excel file, else the
\* first one it holds. The archive holds images or sounds, which
\* loadImagesFromZip and loadAudioFromZip await.

\* loadFromZipFile up to its await of JSZip.loadAsync
loadFromZipFile(file) ==
    /\ fileLoads' = Append(fileLoads, [op |-> "loadFromZipFile",
                                       stage |-> "unzip", file |-> file])
    /\ ret' = [op |-> "loadFromZipFile", threw |-> FALSE]
    /\ UNCHANGED <<logicVars, picked, everLoaded>>

\* from the await of JSZip.loadAsync to the await of excelFile.async
loadFromZipFileUnzipped(n) ==
    LET file == fileLoads[n].file IN
    /\ IF file.unzip # "ok" \/ file.excel = None
       THEN /\ fileLoads' = Resumed(fileLoads, n)
            /\ loadFailed("loadFromZipFileUnzipped")
       ELSE /\ fileLoads' = Advanced(fileLoads, n, "read")
            /\ ret' = [op |-> "loadFromZipFileUnzipped", threw |-> FALSE]
            /\ UNCHANGED <<isDataLoaded, everLoaded>>
    /\ UNCHANGED <<ans, availableLeftRows, availableCenterRows,
                   availableRightRows, symbolHeight, visibleRows,
                   currentAnswer, currentAnsRowNumber, recentQuestions,
                   picked>>

\* from the await of excelFile.async to the first await of
\* loadImagesFromZip: the collections are replaced and validated,
\* isDataLoaded is not set yet
loadFromZipFileRead(n) ==
    LET excel == fileLoads[n].file.excel[1] IN
    /\ IF excel.read # "ok"
       THEN /\ fileLoads' = Resumed(fileLoads, n)
            /\ loadFailed("loadFromZipFileRead")
            /\ UNCHANGED <<ans, availableLeftRows, availableCenterRows,
                           availableRightRows>>
       ELSE /\ readWorkbook(excel.sheets)
            /\ IF WorkbookValid(excel.sheets)
               THEN /\ fileLoads' = Advanced(fileLoads, n, "media")
                    /\ ret' = [op |-> "loadFromZipFileRead", threw |-> FALSE]
                    /\ UNCHANGED <<isDataLoaded, everLoaded>>
               ELSE /\ fileLoads' = Resumed(fileLoads, n)
                    /\ loadFailed("loadFromZipFileRead")
    /\ UNCHANGED <<symbolHeight, visibleRows, currentAnswer,
                   currentAnsRowNumber, recentQuestions, picked>>

\* from the last await of loadAudioFromZip to the return
loadFromZipFileLoaded(n) ==
    /\ fileLoads' = Resumed(fileLoads, n)
    /\ isDataLoaded' = TRUE
    /\ everLoaded' = TRUE
    /\ ret' = [op |-> "loadFromZipFileLoaded", threw |-> FALSE]
    /\ UNCHANGED <<ans, availableLeftRows, availableCenterRows,
                   availableRightRows, symbolHeight, visibleRows,
                   currentAnswer, currentAnsRowNumber, recentQuestions,
                   picked>>

\* DrawAccepted without the test against recentQuestions
DrawAccepted_NoHistory(a, recent, randomIndex) ==
    LET answerData == a[randomIndex + 1] IN
    /\ ~ (\/ FalsyNum(answerData.row_L)
          \/ FalsyNum(answerData.row_C)
          \/ FalsyNum(answerData.row_R))
    /\ ~ (\/ FalsyStr(answerData.ans)
          \/ FalsyStr(answerData.lie_answer1)
          \/ FalsyStr(answerData.lie_answer2))
    /\ ~ (Trim(answerData.ans) = "")
    /\ ~ (Trim(answerData.lie_answer1) = "")
    /\ ~ (Trim(answerData.lie_answer2) = "")

\* DrawAccepted without the whitespace tests
DrawAccepted_NoTrim(a, recent, randomIndex) ==
    LET answerData == a[randomIndex + 1] IN
    /\ ~ Includes(recent, randomIndex)
    /\ ~ (\/ FalsyNum(answerData.row_L)
          \/ FalsyNum(answerData.row_C)
          \/ FalsyNum(answerData.row_R))
    /\ ~ (\/ FalsyStr(answerData.ans)
          \/ FalsyStr(answerData.lie_answer1)
          \/ FalsyStr(answerData.lie_answer2))

\* one pass of the while-loop body of selectRandomQuestion after the draw:
\* TRUE iff no `continue` is taken for the drawn index
DrawAccepted(a, recent, randomIndex) ==
    LET answerData == a[randomIndex + 1] IN
    /\ ~ Includes(recent, randomIndex)
    /\ ~ (\/ FalsyNum(answerData.row_L)
          \/ FalsyNum(answerData.row_C)
          \/ FalsyNum(answerData.row_R))
    /\ ~ (\/ FalsyStr(answerData.ans)
          \/ FalsyStr(answerData.lie_answer1)
          \/ FalsyStr(answerData.lie_answer2))
    /\ ~ (Trim(answerData.ans) = "")
    /\ ~ (Trim(answerData.lie_answer1) = "")
    /\ ~ (Trim(answerData.lie_answer2) = "")

\* the while-loop of selectRandomQuestion; draws[k] is the index
\* Math.floor(Math.random() * ans.length) of the k-th pass
RECURSIVE SelectLoop(_, _, _, _, _, _)
SelectLoop(a, recent, draws, attempts, randomIndex, foundValidData) ==
    IF attempts < maxAttempts /\ ~ foundValidData
    THEN SelectLoop(a, recent, draws, attempts + 1, draws[attempts + 1],
                    DrawAccepted(a, recent, draws[attempts + 1]))
    ELSE [attempts |-> attempts, randomIndex |-> randomIndex,
          foundValidData |-> foundValidData]

\* SelectGivesUp with > for >=
SelectGivesUp_Strict(loop) == loop.attempts > maxAttempts

\* the test after the loop that makes selectRandomQuestion return null
SelectGivesUp(loop) == loop.attempts >= maxAttempts

\* PushRecent with >= for >
PushRecent_EvictsEarly(recent, randomIndex) ==
    LET pushed == Append(recent, randomIndex) IN
    IF Len(pushed) >= maxRecentQuestions THEN Shift(pushed) ELSE pushed

\* recentQuestions.push(randomIndex) followed by the capacity check
PushRecent(recent, randomIndex) ==
    LET pushed == Append(recent, randomIndex) IN
    IF Len(pushed) > maxRecentQuestions THEN Shift(pushed) ELSE pushed

\* the object selectRandomQuestion returns for index randomIndex
QuestionData(a, randomIndex) ==
    LET answerData == a[randomIndex + 1] IN
    [left |-> [imagePath |-> ImagePath(queLeftPath, answerData.row_L),
               rowNumber |-> answerData.row_L],
     center |-> [imagePath |-> ImagePath(queCenterPath, answerData.row_C),
                 rowNumber |-> answerData.row_C],
     right |-> [imagePath |-> ImagePath(queRightPath, answerData.row_R),
                rowNumber |-> answerData.row_R],
     answer |-> answerData,
     ansRowNumber |-> randomIndex + 2]

\* Vocabulary of the record of a call
BlankStrings == {"", " ", "  ", VerticalTab}

\* a row the selector may return, whatever the history
RowSelectable(row) ==
    /\ row.row_L # 0 /\ row.row_C # 0 /\ row.row_R # 0
    /\ row.ans \notin BlankStrings
    /\ row.lie_answer1 \notin BlankStrings
    /\ row.lie_answer2 \notin BlankStrings

SelectableIndices(a) == {i \in 0..(Len(a) - 1) : RowSelectable(a[i + 1])}

\* the indices a call may return: selectable and not in the history
Acceptable(a, recent) ==
    {i \in SelectableIndices(a) : \A m \in 1..Len(recent) : recent[m] # i}

\* position of the first of the 50 draws that lies in the set ok, 0 if
\* there is none
RECURSIVE FirstIn(_, _, _)
FirstIn(draws, ok, k) ==
    IF k > 50 THEN 0
    ELSE IF draws[k] \in ok THEN k
    ELSE FirstIn(draws, ok, k + 1)

\* SelectFinish with a failed call dropping the oldest entry of the history
SelectFinish_FailureEvicts(loop, call) ==
    IF SelectGivesUp(loop)
    THEN /\ ret' = call @@ [result |-> None]
         /\ recentQuestions' = Shift(recentQuestions)
         /\ UNCHANGED <<currentAnswer, currentAnsRowNumber, picked>>
    ELSE /\ Len(picked) < MaxPicks
         /\ recentQuestions' = PushRecent(recentQuestions, loop.randomIndex)
         /\ currentAnswer' = Some(ans[loop.randomIndex + 1])
         /\ currentAnsRowNumber' = Some(loop.randomIndex + 2)
         /\ picked' = Append(picked, loop.randomIndex)
         /\ ret' = call @@
                   [result |-> Some(QuestionData(ans, loop.randomIndex))]

\* the state and the return value of selectRandomQuestion once the loop has
\* ended in `loop`; `call` is the part of the record of the call that does
\* not depend on the outcome
SelectFinish(loop, call) ==
    IF SelectGivesUp(loop)
    THEN /\ ret' = call @@ [result |-> None]
         /\ UNCHANGED <<currentAnswer, currentAnsRowNumber, recentQuestions,
                        picked>>
    ELSE /\ Len(picked) < MaxPicks
         /\ recentQuestions' = PushRecent(recentQuestions, loop.randomIndex)
         /\ currentAnswer' = Some(ans[loop.randomIndex + 1])
         /\ currentAnsRowNumber' = Some(loop.randomIndex + 2)
         /\ picked' = Append(picked, loop.randomIndex)
         /\ ret' = call @@
                   [result |-> Some(QuestionData(ans, loop.randomIndex))]

selectRandomQuestion(draws) ==
    /\ IF ~ isDataReady
       THEN /\ ret' = [op |-> "selectRandomQuestion", result |-> None,
                       ready |-> FALSE, attempts |-> 0,
                       firstOk |-> 0, firstOkIndex |-> -1]
            /\ UNCHANGED <<currentAnswer, currentAnsRowNumber,
                           recentQuestions, picked>>
       ELSE \E loop \in {SelectLoop(ans, recentQuestions, draws, 0, -1, FALSE)},
               first \in {FirstIn(draws, Acceptable(ans, recentQuestions), 1)} :
               SelectFinish(loop,
                   [op |-> "selectRandomQuestion", ready |-> TRUE,
                    attempts |-> loop.attempts, firstOk |-> first,
                    firstOkIndex |-> IF first = 0 THEN -1 ELSE draws[first]])
    /\ UNCHANGED <<ans, availableLeftRows, availableCenterRows,
                   availableRightRows, isDataLoaded, symbolHeight,
                   visibleRows, everLoaded>>

\* random sources for one call on a table of n rows, one draw more than the
\* loop may consume: Draws(n, k, r, a) draws r on the first k - 1 passes and
\* from pass k on steps through all indices, starting with a
Draws(n, k, r, a) ==
    [i \in 1..(maxAttempts + 1) |-> IF i < k THEN r ELSE (a + (i - k)) % n]

EarlyStops == {1, 2}
LateStops == {maxAttempts - 1, maxAttempts, maxAttempts + 1}

DrawSeqs(n) ==
    { Draws(n, k, r, a) : k \in EarlyStops, r \in 0..(n - 1), a \in 0..(n - 1) }
    \cup { Draws(n, k, r, (r + 1) % n) : k \in LateStops, r \in 0..(n - 1) }

----------------------------------------------------------------------------
(* SlotLogic: reel positions, answer choices *)

\* the list a reelType string selects
RowNumbers(reelType) ==
    CASE reelType = "left" -> availableLeftRows
      [] reelType = "center" -> availableCenterRows
      [] reelType = "right" -> availableRightRows

\* Array.prototype.findIndex with an equality test: 0-based, -1 if absent
FindIndex(rowNumbers, targetRowNumber) ==
    IF \E i \in 1..Len(rowNumbers) : rowNumbers[i] = targetRowNumber
    THEN (CHOOSE i \in 1..Len(rowNumbers) :
              /\ rowNumbers[i] = targetRowNumber
              /\ \A m \in 1..(i - 1) : rowNumbers[m] # targetRowNumber) - 1
    ELSE -1

\* CenterOffset rounding the half up
CenterOffset_Ceil(visible) == (visible + 1) \div 2

\* Math.floor(this.visibleRows / 2)
CenterOffset(visible) == visible \div 2

\* StopPosition counting the positions from 1
StopPosition_FromOne(randomIndex, height) == (randomIndex + 1) * (-height)

\* generateStopPosition; randomIndex is Math.floor(Math.random() * 10)
StopPosition(randomIndex, height) == randomIndex * (-height)

\* TopIndex without the wrap
TopIndex_NoWrap(symbolIndex, centerOffset, length) == symbolIndex - centerOffset

\* topIndex of getPositionForQuestion: one wrap by the list length
TopIndex(symbolIndex, centerOffset, length) ==
    IF symbolIndex - centerOffset < 0
    THEN symbolIndex - centerOffset + length
    ELSE symbolIndex - centerOffset

\* getPositionForQuestion on explicit field values
PositionForQuestion(rowNumbers, visible, height, targetRowNumber, randomIndex) ==
    LET symbolIndex == FindIndex(rowNumbers, targetRowNumber) IN
    IF symbolIndex = -1
    THEN StopPosition(randomIndex, height)
    ELSE TopIndex(symbolIndex, CenterOffset(visible), Len(rowNumbers))
             * (-height)

\* the JavaScript remainder a % n for n > 0: it has the sign of a
Rem(a, n) == IF a >= 0 THEN a % n ELSE -((-a) % n)

\* array[i] for a 0-based index: undefined outside the array
At(array, i) == IF 0 <= i /\ i < Len(array) THEN Some(array[i + 1]) ELSE None

\* SymbolIndexAt without the remainder by the list length
SymbolIndexAt_NoRemainder(position, visible, height, length) ==
    RoundDiv(Abs(position), height) + CenterOffset(visible)

\* symbolIndex of getQuestionFromPosition; the remainder by the length 0
\* of an empty list is NaN
SymbolIndexAt(position, visible, height, length) ==
    IF length = 0 THEN NaN
    ELSE Rem(RoundDiv(Abs(position), height) + CenterOffset(visible), length)

\* getQuestionFromPosition on explicit field values; rowNumbers[NaN], of an
\* empty list, is undefined
QuestionFromPosition(rowNumbers, visible, height, position) ==
    IF Len(rowNumbers) = 0 THEN None
    ELSE At(rowNumbers,
            SymbolIndexAt(position, visible, height, Len(rowNumbers)))

getPositionForQuestion(targetRowNumber, reelType, randomIndex) ==
    /\ ret' = [op |-> "getPositionForQuestion",
               targetRowNumber |-> targetRowNumber, reelType |-> reelType,
               found |-> FindIndex(RowNumbers(reelType), targetRowNumber) # -1,
               result |-> PositionForQuestion(RowNumbers(reelType), visibleRows,
                              symbolHeight, targetRowNumber, randomIndex)]
    /\ UNCHANGED <<ans, availableLeftRows, availableCenterRows,
                   availableRightRows, isDataLoaded, symbolHeight, visibleRows,
                   currentAnswer, currentAnsRowNumber, recentQuestions,
                   picked, everLoaded>>

\* `after` is the getPositionForQuestion call whose return value is the
\* position passed here, if the previous call was one for the same reel
getQuestionFromPosition(position, reelType) ==
    /\ ret' = [op |-> "getQuestionFromPosition",
               position |-> position, reelType |-> reelType,
               after |-> IF /\ ret.op = "getPositionForQuestion"
                            /\ ret.reelType = reelType
                            /\ ret.result = position
                         THEN Some(ret) ELSE None,
               result |-> QuestionFromPosition(RowNumbers(reelType),
                              visibleRows, symbolHeight, position)]
    /\ UNCHANGED <<ans, availableLeftRows, availableCenterRows,
                   availableRightRows, isDataLoaded, symbolHeight, visibleRows,
                   currentAnswer, currentAnsRowNumber, recentQuestions,
                   picked, everLoaded>>

\* SlotUI.syncGeometry: symbolHeight becomes the rounded mean of the count
\* measured symbol heights, visibleRows the rounded number of symbols that
\* fit the column, at least 1
SyncedHeight(height, totalHeight, count) ==
    IF count > 0 THEN RoundDiv(totalHeight, count) ELSE height

SyncedVisibleRows(visible, height, hasColumn, columnHeight) ==
    IF hasColumn
    THEN (IF RoundDiv(columnHeight, height) > 1
          THEN RoundDiv(columnHeight, height) ELSE 1)
    ELSE visible

syncGeometry(totalHeight, count, hasColumn, columnHeight) ==
    /\ symbolHeight' = SyncedHeight(symbolHeight, totalHeight, count)
    /\ visibleRows' = SyncedVisibleRows(visibleRows,
                          SyncedHeight(symbolHeight, totalHeight, count),
                          hasColumn, columnHeight)
    /\ ret' = [op |-> "syncGeometry"]
    /\ UNCHANGED <<ans, availableLeftRows, availableCenterRows,
                   availableRightRows, isDataLoaded, currentAnswer,
                   currentAnsRowNumber, recentQuestions, picked, everLoaded>>

\* the test `!this.currentAnswer || !this.currentAnsRowNumber`; a row
\* number is a number, falsy when 0
NoCurrentQuestion(current, rowNumber) ==
    \/ current = None
    \/ rowNumber = None
    \/ FalsyNum(rowNumber[1])

\* JudgeResult comparing row numbers only, whatever the folder
JudgeResult_RowOnly(current, rowNumber, selectedImagePath) ==
    IF NoCurrentQuestion(current, rowNumber)
    THEN [isCorrect |-> FALSE, correctImagePath |-> None]
    ELSE [isCorrect |-> selectedImagePath[2] = rowNumber[1],
          correctImagePath |-> Some(ImagePath(ansCorrectPath, rowNumber[1]))]

\* JudgeResult without the test for a current question: the row number
\* undefined is formatted into the path (written -1 here)
JudgeResult_NoGuard(current, rowNumber, selectedImagePath) ==
    LET n == IF rowNumber = None THEN -1 ELSE rowNumber[1] IN
    [isCorrect |-> selectedImagePath = ImagePath(ansCorrectPath, n),
     correctImagePath |-> Some(ImagePath(ansCorrectPath, n))]

\* the object judgeAnswer returns
JudgeResult(current, rowNumber, selectedImagePath) ==
    IF NoCurrentQuestion(current, rowNumber)
    THEN [isCorrect |-> FALSE, correctImagePath |-> None]
    ELSE [isCorrect |->
              selectedImagePath = ImagePath(ansCorrectPath, rowNumber[1]),
          correctImagePath |-> Some(ImagePath(ansCorrectPath, rowNumber[1]))]

judgeAnswer(selectedImagePath) ==
    /\ ret' = [op |-> "judgeAnswer", selectedImagePath |-> selectedImagePath,
               result |-> JudgeResult(currentAnswer, currentAnsRowNumber,
                                      selectedImagePath)]
    /\ UNCHANGED <<ans, availableLeftRows, availableCenterRows,
                   availableRightRows, isDataLoaded, symbolHeight, visibleRows,
                   currentAnswer, currentAnsRowNumber, recentQuestions,
                   picked, everLoaded>>

\* Swap that copies shuffled[j] to place i and leaves place j
Swap_Copy(shuffled, i, j) == [shuffled EXCEPT ![i + 1] = shuffled[j + 1]]

\* [shuffled[i], shuffled[j]] = [shuffled[j], shuffled[i]], 0-based i and j
Swap(shuffled, i, j) ==
    [shuffled EXCEPT ![i + 1] = shuffled[j + 1], ![j + 1] = shuffled[i + 1]]

\* the loop of shuffleArray from index i down to 1; js[i] is the value
\* Math.floor(Math.random() * (i + 1)) drawn for index i
RECURSIVE ShuffleFrom(_, _, _)
ShuffleFrom(shuffled, i, js) ==
    IF i > 0 THEN ShuffleFrom(Swap(shuffled, i, js[i]), i - 1, js)
    ELSE shuffled

shuffleArray(array, js) == ShuffleFrom(array, Len(array) - 1, js)

\* ChoiceList with the flag of the correct choice on the first wrong one
ChoiceList_FlagsWrong(rowNumber) ==
    << [imagePath |-> ImagePath(ansCorrectPath, rowNumber), isCorrect |-> FALSE],
       [imagePath |-> ImagePath(ansWrong1Path, rowNumber), isCorrect |-> TRUE],
       [imagePath |-> ImagePath(ansWrong2Path, rowNumber), isCorrect |-> FALSE] >>

\* the array generateAnswerChoices builds before it shuffles; the imageUrl
\* of a choice is looked up from its imagePath and is left out
ChoiceList(rowNumber) ==
    << [imagePath |-> ImagePath(ansCorrectPath, rowNumber), isCorrect |-> TRUE],
       [imagePath |-> ImagePath(ansWrong1Path, rowNumber), isCorrect |-> FALSE],
       [imagePath |-> ImagePath(ansWrong2Path, rowNumber), isCorrect |-> FALSE] >>

AnswerChoices(current, rowNumber, js) ==
    IF NoCurrentQuestion(current, rowNumber) THEN <<>>
    ELSE shuffleArray(ChoiceList(rowNumber[1]), js)

generateAnswerChoices(js) ==
    /\ ret' = [op |-> "generateAnswerChoices",
               result |-> AnswerChoices(currentAnswer, currentAnsRowNumber, js)]
    /\ UNCHANGED <<ans, availableLeftRows, availableCenterRows,
                   availableRightRows, isDataLoaded, symbolHeight, visibleRows,
                   currentAnswer, currentAnsRowNumber, recentQuestions,
                   picked, everLoaded>>

----------------------------------------------------------------------------
(* SlotProblemGenerator: the combination generator *)

\* A worksheet is the sequence of its rows below the header: row r of the
\* sheet is element r - 1. A row maps a column letter to its cell: None for
\* a cell that does not exist, Some(v) for a cell with value v, a string.

\* parseInt of a cell value; parseInt(null) is NaN
ParseIntValue(value) == IF value = None THEN NaN ELSE ParseInt(value[1])

\* !value for a cell value
FalsyValue(value) == value = None \/ FalsyStr(value[1])

\* value.toString().trim() === ''
BlankValue(value) == Trim(value[1]) = ""

getCellValue(worksheet, column, row) ==
    IF row - 1 \in 1..Len(worksheet) THEN worksheet[row - 1][column] ELSE None

\* an Ans row none of whose cells exists
NoCells == [A |-> None, B |-> None, C |-> None, I |-> None]

\* setCellValue creates the cell when it does not exist
setCellValue(worksheet, column, row, value) ==
    LET padded == worksheet \o [n \in 1..(row - 1 - Len(worksheet)) |-> NoCells]
    IN [padded EXCEPT ![row - 1][column] = Some(value)]

\* loadSheetData from the given row on: reading stops at the first row whose
\* type or question is missing or blank
RECURSIVE SheetDataFrom(_, _, _)
SheetDataFrom(worksheet, row, data) ==
    LET type == getCellValue(worksheet, "A", row)
        question == getCellValue(worksheet, "B", row)
    IN IF FalsyValue(type) \/ FalsyValue(question) THEN data
       ELSE IF BlankValue(type) \/ BlankValue(question) THEN data
       ELSE SheetDataFrom(worksheet, row + 1,
                Append(data, [type |-> type[1], question |-> question[1]]))

loadSheetData(worksheet) == SheetDataFrom(worksheet, 2, <<>>)

\* loadConstraintPairs: the set of keys `${parseInt(val1)},${parseInt(val2)}`,
\* a key being the pair of its two numbers
RECURSIVE ConstraintPairsFrom(_, _, _)
ConstraintPairsFrom(worksheet, row, pairs) ==
    LET val1 == getCellValue(worksheet, "A", row)
        val2 == getCellValue(worksheet, "B", row)
    IN IF FalsyValue(val1) \/ BlankValue(val1) THEN pairs
       ELSE ConstraintPairsFrom(worksheet, row + 1,
                pairs \cup {<<ParseIntValue(val1), ParseIntValue(val2)>>})

loadConstraintPairs(worksheet) == ConstraintPairsFrom(worksheet, 2, {})

\* loadExistingAnsData: the set of keys of the rows up to the first row
\* with a missing or blank cell in columns A to C
RECURSIVE ExistingAnsDataFrom(_, _, _)
ExistingAnsDataFrom(worksheet, row, existingData) ==
    LET valA == getCellValue(worksheet, "A", row)
        valB == getCellValue(worksheet, "B", row)
        valC == getCellValue(worksheet, "C", row)
    IN IF FalsyValue(valA) \/ FalsyValue(valB) \/ FalsyValue(valC)
       THEN existingData
       ELSE IF BlankValue(valA) \/ BlankValue(valB) \/ BlankValue(valC)
       THEN existingData
       ELSE ExistingAnsDataFrom(worksheet, row + 1,
                existingData \cup {<<ParseIntValue(valA), ParseIntValue(valB),
                                     ParseIntValue(valC)>>})

loadExistingAnsData(worksheet) == ExistingAnsDataFrom(worksheet, 2, {})

\* isValidCombination without the test of the pair (typeL, typeR)
isValidCombination_NoLR(typeL, typeC, typeR, lcPairs, lrPairs, crPairs) ==
    /\ <<typeL, typeC>> \in lcPairs
    /\ <<typeC, typeR>> \in crPairs

isValidCombination(typeL, typeC, typeR, lcPairs, lrPairs, crPairs) ==
    /\ <<typeL, typeC>> \in lcPairs
    /\ <<typeL, typeR>> \in lrPairs
    /\ <<typeC, typeR>> \in crPairs

isExistingCombination(combination, existingData) ==
    <<Some(combination[1]), Some(combination[2]), Some(combination[3])>>
        \in existingData

\* the body of the innermost loop of generateCombinations for the 0-based
\* indices i, j, k; c holds the data loaded before the loops, st the
\* problems, the count, the Ans sheet and the next Ans row
CombineStep(c, i, j, k, st) ==
    LET lItem == c.lData[i + 1]
        cItem == c.cData[j + 1]
        rItem == c.rData[k + 1]
        typeL == ParseInt(lItem.type)
        typeC == ParseInt(cItem.type)
        typeR == ParseInt(rItem.type)
    IN IF FalsyStr(lItem.type) \/ FalsyStr(cItem.type) \/ FalsyStr(rItem.type)
       THEN st
       ELSE IF typeL = NaN \/ typeC = NaN \/ typeR = NaN THEN st
       ELSE IF ~ isValidCombination(typeL, typeC, typeR,
                                    c.lcPairs, c.lrPairs, c.crPairs) THEN st
       ELSE IF isExistingCombination(<<i + 2, j + 2, k + 2>>,
                                     c.existingAnsData) THEN st
       ELSE [problems |->
                 Append(st.problems,
                        [row_L |-> i + 2, row_C |-> j + 2, row_R |-> k + 2,
                         question |-> lItem.question \o cItem.question
                                          \o rItem.question,
                         type_L |-> typeL[1], type_C |-> typeC[1],
                         type_R |-> typeR[1]]),
             ansSheet |->
                 setCellValue(
                   setCellValue(
                     setCellValue(
                       setCellValue(st.ansSheet, "A", st.ansRow, String(i + 2)),
                       "B", st.ansRow, String(j + 2)),
                     "C", st.ansRow, String(k + 2)),
                   "I", st.ansRow,
                   lItem.question \o cItem.question \o rItem.question),
             ansRow |-> st.ansRow + 1,
             count |-> st.count + 1]

\* the three nested loops, n counting their passes: i is the index of the
\* outer loop, j of the middle loop, k of the inner loop. The count is never
\* negative; its test makes TLC evaluate st before the next pass.
RECURSIVE CombineFrom(_, _, _)
CombineFrom(c, n, st) ==
    IF st.count >= 0 /\ n < Len(c.lData) * Len(c.cData) * Len(c.rData)
    THEN CombineFrom(c, n + 1,
             CombineStep(c, n \div (Len(c.cData) * Len(c.rData)),
                         (n \div Len(c.rData)) % Len(c.cData),
                         n % Len(c.rData), st))
    ELSE st

\* the first Ans row generateCombinations writes
FirstAnsRow(existingAnsData) == 2 + Cardinality(existingAnsData)

\* generateCombinations: the returned problems and count, and the Ans sheet
\* it leaves in the workbook
generateCombinations(book) ==
    LET c == [lcPairs |-> loadConstraintPairs(book.LC),
              lrPairs |-> loadConstraintPairs(book.LR),
              crPairs |-> loadConstraintPairs(book.CR),
              existingAnsData |-> loadExistingAnsData(book.Ans),
              lData |-> loadSheetData(book.Que_L),
              cData |-> loadSheetData(book.Que_C),
              rData |-> loadSheetData(book.Que_R)]
    IN CombineFrom(c, 0, [problems |-> <<>>, count |-> 0,
                          ansSheet |-> book.Ans,
                          ansRow |-> FirstAnsRow(c.existingAnsData)])

\* processFile, when the file has been read: the workbook is replaced
processFile(book) ==
    /\ workbook' = Some(book)
    /\ ret' = [op |-> "processFile"]
    /\ UNCHANGED <<logicVars, picked, everLoaded, fileLoads, problemsData>>

\* generateProblems: the workbook as it was is kept in `before`
generateProblems ==
    /\ IF workbook = None
       THEN /\ ret' = [op |-> "generateProblems", status |-> "error",
                       before |-> workbook, result |-> None]
            /\ UNCHANGED <<workbook, problemsData>>
       ELSE \E result \in {generateCombinations(workbook[1])} :
              /\ workbook' = Some([workbook[1] EXCEPT !.Ans = result.ansSheet])
              /\ problemsData' = result.problems
              /\ ret' = [op |-> "generateProblems", status |-> "success",
                         before |-> workbook,
                         result |-> Some([problems |-> result.problems,
                                          count |-> result.count])]
    /\ UNCHANGED <<logicVars, picked, everLoaded, fileLoads>>

----------------------------------------------------------------------------
(* SlotRanking *)

\* An entry of a ranking list is a record; the field `points` stands for
\* correctAnswers in the list of correct answers and for consecutiveAnswers
\* in the list of consecutive answers. The timestamp of an entry is left
\* out: it is read only to find the new entry again in the sorted copy,
\* and two calls are taken to be made at different times.

NoRankings == [correctAnswers |-> <<>>, consecutiveAnswers |-> <<>>]

Entry(playerName, points, totalQuestions, accuracy) ==
    [playerName |-> playerName, points |-> points,
     totalQuestions |-> totalQuestions, accuracy |-> accuracy]

\* Compare that looks at the points only
Compare_PointsOnly(a, b) == b.points - a.points

\* the comparison function both lists are sorted with
Compare(a, b) ==
    IF b.points # a.points THEN b.points - a.points
    ELSE b.accuracy - a.accuracy

\* Array.prototype.sort with Compare: a stable sort, here by insertion
RECURSIVE InsertSorted(_, _, _)
InsertSorted(sorted, entry, n) ==
    IF n <= Len(sorted) /\ Compare(sorted[n], entry) <= 0
    THEN InsertSorted(sorted, entry, n + 1)
    ELSE SubSeq(sorted, 1, n - 1) \o <<entry>>
             \o SubSeq(sorted, n, Len(sorted))

RECURSIVE SortFrom(_, _, _)
SortFrom(list, n, sorted) ==
    IF n > Len(list) THEN sorted
    ELSE SortFrom(list, n + 1, InsertSorted(sorted, list[n], 1))

Sort(list) == SortFrom(list, 1, <<>>)

\* list.slice(0, end)
Slice(list, end) == SubSeq(list, 1, IF Len(list) < end THEN Len(list) ELSE end)

\* findIndex(...) + 1 in the sorted copy: the place of the new entry, which
\* a stable sort puts behind the entries of the list that do not come
\* after it
RankOf(list, entry) ==
    1 + Cardinality({n \in 1..Len(list) : Compare(list[n], entry) <= 0})

\* the list after push, sort and slice
ListWith(list, entry) == Slice(Sort(Append(list, entry)), maxRankingEntries)

\* addCorrectAnswersEntry and addConsecutiveAnswersEntry: which names the
\* list; saveRankings writes the rankings to the storage
addEntry(which, entry) ==
    /\ rankings' = [rankings EXCEPT ![which] = ListWith(rankings[which], entry)]
    /\ storedRankings' = Some(rankings')

addCorrectAnswersEntry(playerName, correctAnswers, totalQuestions, accuracy) ==
    /\ addEntry("correctAnswers",
                Entry(playerName, correctAnswers, totalQuestions, accuracy))
    /\ ret' = [op |-> "addCorrectAnswersEntry",
               rank |-> RankOf(rankings.correctAnswers,
                               Entry(playerName, correctAnswers,
                                     totalQuestions, accuracy))]

addConsecutiveAnswersEntry(playerName, consecutive, total, accuracy) ==
    /\ addEntry("consecutiveAnswers",
                Entry(playerName, consecutive, total, accuracy))
    /\ ret' = [op |-> "addConsecutiveAnswersEntry",
               rank |-> RankOf(rankings.consecutiveAnswers,
                               Entry(playerName, consecutive, total,
                                     accuracy))]

\* IsTop5 without the test of the length of the list: a list too short has
\* no fifth entry to compare with
IsTop5_NoThreshold(list, points) ==
    /\ ~ (points <= 0)
    /\ (Len(list) < videoThreshold \/ points > list[videoThreshold].points)

\* isCorrectAnswersTop5 and isConsecutiveAnswersTop5 on their list
IsTop5(list, points) ==
    /\ ~ (Len(list) < videoThreshold)
    /\ ~ (points <= 0)
    /\ points > list[videoThreshold].points

\* clearRankings; removeItem is taken not to throw
clearRankings ==
    /\ rankings' = NoRankings
    /\ storedRankings' = None
    /\ ret' = [op |-> "clearRankings"]

\* importRankings on a parsed document; a text that does not parse and a
\* document without rankings return false; a list the document lacks reads
\* as the empty list
importRankings(importData) ==
    IF importData # None /\ importData[1].rankings # None
    THEN /\ rankings' = importData[1].rankings[1]
         /\ storedRankings' = Some(rankings')
         /\ ret' = [op |-> "importRankings", result |-> TRUE]
    ELSE /\ ret' = [op |-> "importRankings", result |-> FALSE]
         /\ UNCHANGED rankVars

----------------------------------------------------------------------------
(* VideoManager *)

\* The methods are functions of the state of the manager, a record of its
\* fields, so that a handler of the page can call several in a row. The
\* three video elements are taken to be on the page. An entry of
\* playPromises names the video whose play() returned a promise that has
\* neither been fulfilled nor rejected.

Videos ==
    [isPlaying |-> isPlaying, hasPlayedOnce |-> hasPlayedOnce,
     activeVideos |-> activeVideos, videoDisplay |-> videoDisplay,
     playPromises |-> playPromises, popupClosed |-> popupClosed]

SetVideos(v) ==
    /\ isPlaying' = v.isPlaying
    /\ hasPlayedOnce' = v.hasPlayedOnce
    /\ activeVideos' = v.activeVideos
    /\ videoDisplay' = v.videoDisplay
    /\ playPromises' = v.playPromises
    /\ popupClosed' = v.popupClosed

hideVideo(v, name) == [v EXCEPT !.videoDisplay[name] = "none"]

showVideo(v, name) ==
    [v EXCEPT !.videoDisplay[name] = "block",
              !.playPromises = Append(@, name)]

resetPlayedFlag(v) == [v EXCEPT !.hasPlayedOnce = FALSE, !.isPlaying = FALSE]

stopAllVideos(v) ==
    [v EXCEPT !.videoDisplay = [name \in VideoNames |-> "none"],
              !.activeVideos = {},
              !.isPlaying = FALSE]

checkAllVideosEnded(v) ==
    IF \A name \in VideoNames : v.videoDisplay[name] = "none"
    THEN [v EXCEPT !.isPlaying = FALSE]
    ELSE v

playBackgroundVideo(v) ==
    IF v.isPlaying \/ v.hasPlayedOnce THEN [v EXCEPT !.popupClosed = FALSE]
    ELSE [showVideo([stopAllVideos(v) EXCEPT !.isPlaying = TRUE],
                    "background")
              EXCEPT !.activeVideos = @ \cup {"background"},
                     !.popupClosed = FALSE]

\* playOverlayVideo and playTopOverlayVideo
playOverlay(v, name) ==
    IF ~ v.isPlaying THEN v
    ELSE [showVideo(v, name) EXCEPT !.activeVideos = @ \cup {name}]

playOverlayVideo(v) == playOverlay(v, "overlay")
playTopOverlayVideo(v) == playOverlay(v, "topOverlay")

\* the promise at place n is no longer pending
Settled(v, n) ==
    [v EXCEPT !.playPromises = SubSeq(@, 1, n - 1) \o SubSeq(@, n + 1, Len(@))]

\* the two reactions showVideo registers on the promise of play()
playFulfilled(v, n) == [Settled(v, n) EXCEPT !.hasPlayedOnce = TRUE]

playRejected(v, n) ==
    hideVideo([Settled(v, n) EXCEPT !.isPlaying = FALSE], v.playPromises[n])

\* the listeners initializeVideos adds to each video
videoEnded(v, name) == checkAllVideosEnded(hideVideo(v, name))

videoError(v, name) == hideVideo([v EXCEPT !.isPlaying = FALSE], name)

----------------------------------------------------------------------------
(* SlotUI: a round of the game *)

\* A reel is named by its index 0, 1, 2; element i + 1 of isSpinning,
\* finalPositions, currentQuestions and reelStopCompleted belongs to reel i.
\* An entry n of stopTimeouts stands for the stopReel timeouts of one round
\* that have not fired: those of the reels n, ..., 2, which fire in this
\* order. An entry of stopAnimations holds what the stopAnimation closure of
\* slowDownReel captured, and as history the number of questions selected
\* when slowDownReel ran. The frames of an animation before its last one
\* only move the reel on the page and are not steps of the model.

reelTypes == <<"left", "center", "right">>

\* the three disabled placeholder buttons of initializeAnswerChoices
Placeholders ==
    [visibility |-> "visible",
     buttons |-> [n \in 1..3 |-> [disabled |-> TRUE, imagePath |-> None]]]

\* the buttons displayAnswerChoices builds from the choices
ChoiceButtons(choices) ==
    [visibility |-> "visible",
     buttons |-> [n \in 1..Len(choices) |->
                      [disabled |-> FALSE,
                       imagePath |-> Some(choices[n].imagePath)]]]

\* startNextQuestion past its test of timeLeft: the selection, the reset of
\* the round, the start of the three reels and the three stop timeouts
StartQuestion(draws) ==
    /\ selectRandomQuestion(draws)
    /\ currentQuestionData' = ret'.result
    /\ answerChoices' = Placeholders
    /\ currentQuestions' = <<None, None, None>>
    /\ reelStopCompleted' = <<FALSE, FALSE, FALSE>>
    /\ hasFinalizedQuestion' = FALSE
    /\ isSpinning' = <<TRUE, TRUE, TRUE>>
    /\ stopTimeouts' = Append(stopTimeouts, 0)
    /\ ownCompleted' = <<FALSE, FALSE, FALSE>>
    /\ answered' = 0
    /\ UNCHANGED <<finalPositions, stopAnimations>>

startNextQuestion(draws) ==
    IF timeLeft <= 0
    THEN /\ ret' = [op |-> "startNextQuestion"]
         /\ answered' = 0
         /\ UNCHANGED <<logicVars, picked, everLoaded, timeLeft, isSpinning,
                        finalPositions, currentQuestions, currentQuestionData,
                        reelStopCompleted, hasFinalizedQuestion, answerChoices,
                        stopTimeouts, stopAnimations, ownCompleted>>
    ELSE /\ StartQuestion(draws)
         /\ UNCHANGED timeLeft

\* the row number slowDownReel reads from the question data for a reel
TargetRowNumber(questionData, reelIndex) ==
    questionData[reelTypes[reelIndex + 1]].rowNumber

\* stopTimeouts once the timeout of the round at place r has fired
TimeoutFired(timeouts, r) ==
    IF timeouts[r] < 2
    THEN [timeouts EXCEPT ![r] = timeouts[r] + 1]
    ELSE SubSeq(timeouts, 1, r - 1) \o SubSeq(timeouts, r + 1, Len(timeouts))

\* the timeout callback stopReel(reelIndex) of the round at place r, with
\* slowDownReel up to the request of the first animation frame; reading a
\* property of a null currentQuestionData throws, and nothing catches it
stopReel(r, randomIndex) ==
    LET reelIndex == stopTimeouts[r] IN
    /\ stopTimeouts' = TimeoutFired(stopTimeouts, r)
    /\ IF ~ isSpinning[reelIndex + 1]
       THEN /\ ret' = [op |-> "stopReel", reelIndex |-> reelIndex,
                       slowedDown |-> FALSE, threw |-> FALSE]
            /\ UNCHANGED <<isSpinning, finalPositions, stopAnimations>>
       ELSE /\ isSpinning' = [isSpinning EXCEPT ![reelIndex + 1] = FALSE]
            /\ IF currentQuestionData = None
               THEN /\ ret' = [op |-> "stopReel", reelIndex |-> reelIndex,
                               slowedDown |-> TRUE, threw |-> TRUE]
                    /\ UNCHANGED <<finalPositions, stopAnimations>>
               ELSE \E finalPosition \in
                        {PositionForQuestion(
                             RowNumbers(reelTypes[reelIndex + 1]), visibleRows,
                             symbolHeight,
                             TargetRowNumber(currentQuestionData[1], reelIndex),
                             randomIndex)} :
                      /\ finalPositions' =
                             [finalPositions EXCEPT ![reelIndex + 1] = finalPosition]
                      /\ stopAnimations' =
                             Append(stopAnimations,
                                    [reelIndex |-> reelIndex,
                                     round |-> Len(picked),
                                     finalPosition |-> finalPosition,
                                     targetRowNumber |->
                                         TargetRowNumber(currentQuestionData[1],
                                                         reelIndex)])
                      /\ ret' = [op |-> "stopReel", reelIndex |-> reelIndex,
                                 slowedDown |-> TRUE, threw |-> FALSE]
    /\ UNCHANGED <<logicVars, picked, everLoaded, timeLeft, currentQuestions,
                   currentQuestionData, reelStopCompleted,
                   hasFinalizedQuestion, answerChoices, ownCompleted,
                   answered>>

\* the last frame of the stop animation at place n: the row at the final
\* position is recorded, then checkGameComplete, finalizeQuestion and
\* displayAnswerChoices; js are the draws of the shuffle
stopAnimation(n, js) ==
    LET closure == stopAnimations[n]
        completed == [reelStopCompleted EXCEPT ![closure.reelIndex + 1] = TRUE]
        finalize == Cardinality({k \in 1..3 : completed[k]}) >= 2
                        /\ ~ hasFinalizedQuestion
        display == finalize /\ currentQuestionData # None
    IN
    /\ stopAnimations' = SubSeq(stopAnimations, 1, n - 1)
                             \o SubSeq(stopAnimations, n + 1, Len(stopAnimations))
    /\ currentQuestions' =
           [currentQuestions EXCEPT ![closure.reelIndex + 1] =
                QuestionFromPosition(RowNumbers(reelTypes[closure.reelIndex + 1]),
                                     visibleRows, symbolHeight,
                                     closure.finalPosition)]
    /\ reelStopCompleted' = completed
    /\ ownCompleted' = IF closure.round = Len(picked)
                       THEN [ownCompleted EXCEPT ![closure.reelIndex + 1] = TRUE]
                       ELSE ownCompleted
    /\ hasFinalizedQuestion' = (hasFinalizedQuestion \/ finalize)
    /\ answerChoices' =
           IF display
           THEN ChoiceButtons(AnswerChoices(currentAnswer, currentAnsRowNumber, js))
           ELSE answerChoices
    /\ ret' = [op |-> "stopAnimation", reelIndex |-> closure.reelIndex,
               targetRowNumber |-> closure.targetRowNumber,
               stoppedRowNumber |-> currentQuestions'[closure.reelIndex + 1],
               displayed |-> display]
    /\ UNCHANGED <<logicVars, picked, everLoaded, timeLeft, isSpinning,
                   finalPositions, currentQuestionData, stopTimeouts,
                   answered>>

----------------------------------------------------------------------------
(* SlotUI: the game around the rounds *)

\* The handlers of the page call each other in a row, so each is a function
\* of the state of the page, a record of the fields it reads and writes;
\* an action assigns the fields of the record its handler returns. The
\* number startGames counts the startGame calls that wait at
\* `await this.audio.enableAudio()`, nextTimeouts the timeouts of
\* selectAnswer that have not fired. A handle of an interval is a positive
\* number; only the equality of handles matters.

Page ==
    [gameStarted |-> gameStarted, score |-> score, timeLeft |-> timeLeft,
     gameTimer |-> gameTimer, intervals |-> intervals,
     hasPlayedRankinGako |-> hasPlayedRankinGako,
     resultPopup |-> resultPopup, rankingButtons |-> rankingButtons,
     recordRankingBtn |-> recordRankingBtn, startGames |-> startGames,
     nextTimeouts |-> nextTimeouts, gameEnded |-> gameEnded,
     videos |-> Videos, symbolHeight |-> symbolHeight,
     visibleRows |-> visibleRows, isSpinning |-> isSpinning,
     currentQuestionData |-> currentQuestionData,
     currentQuestions |-> currentQuestions,
     finalPositions |-> finalPositions, answerChoices |-> answerChoices]

\* the fields of the game, the popup and the videos
SetGame(p) ==
    /\ gameStarted' = p.gameStarted
    /\ score' = p.score
    /\ gameTimer' = p.gameTimer
    /\ intervals' = p.intervals
    /\ hasPlayedRankinGako' = p.hasPlayedRankinGako
    /\ resultPopup' = p.resultPopup
    /\ rankingButtons' = p.rankingButtons
    /\ recordRankingBtn' = p.recordRankingBtn
    /\ startGames' = p.startGames
    /\ nextTimeouts' = p.nextTimeouts
    /\ gameEnded' = p.gameEnded
    /\ SetVideos(p.videos)

\* the fields of the round that the handlers of the game write
SetRound(p) ==
    /\ timeLeft' = p.timeLeft
    /\ isSpinning' = p.isSpinning
    /\ currentQuestionData' = p.currentQuestionData
    /\ currentQuestions' = p.currentQuestions
    /\ finalPositions' = p.finalPositions
    /\ answerChoices' = p.answerChoices

SetGeometry(p) ==
    /\ symbolHeight' = p.symbolHeight
    /\ visibleRows' = p.visibleRows

\* `if (this.gameTimer) { clearInterval(this.gameTimer); this.gameTimer = null; }`
clearTimer(p) ==
    IF p.gameTimer = None THEN p
    ELSE [p EXCEPT !.intervals = @ \ {p.gameTimer[1]}, !.gameTimer = None]

\* the handle setInterval returns
NewHandle(active) ==
    CHOOSE h \in 1..(Cardinality(active) + 1) : h \notin active

\* startCountdown that does not clear the interval it holds
startCountdown_NoClear(p) ==
    [p EXCEPT !.gameTimer = Some(NewHandle(p.intervals)),
              !.intervals = @ \cup {NewHandle(p.intervals)}]

startCountdown(p) ==
    [clearTimer(p) EXCEPT !.gameTimer = Some(NewHandle(clearTimer(p).intervals)),
                          !.intervals = @ \cup {NewHandle(clearTimer(p).intervals)}]

\* a measurement of the page by syncGeometry: the summed height and the
\* number of the symbols measured, whether a column exists, its height
synced(p, m) ==
    [p EXCEPT !.symbolHeight = SyncedHeight(@, m.totalHeight, m.count),
              !.visibleRows =
                  SyncedVisibleRows(@, SyncedHeight(p.symbolHeight,
                                                    m.totalHeight, m.count),
                                    m.hasColumn, m.columnHeight)]

\* startGame up to its await; ready is isDataReady(), and the page measures
\* the same at both calls of syncGeometry
startGame(p, ready, m) ==
    IF p.gameStarted \/ ~ ready THEN p
    ELSE [clearTimer(synced(synced(p, m), m))
              EXCEPT !.gameStarted = TRUE,
                     !.startGames = @ + 1,
                     !.gameEnded = FALSE]

\* startGame after its await, up to the call of startNextQuestion
startGameResumed(p) ==
    startCountdown([p EXCEPT !.startGames = @ - 1,
                             !.score = ZeroScore,
                             !.timeLeft = gameSeconds,
                             !.hasPlayedRankinGako = FALSE,
                             !.answerChoices = Placeholders])

endGameInterrupted(p) ==
    [clearTimer(p) EXCEPT !.gameStarted = FALSE,
                          !.answerChoices =
                              [visibility |-> "hidden", buttons |-> <<>>],
                          !.gameEnded = TRUE]

\* confirmed is the answer to confirm()
stopGame(p, confirmed) ==
    IF ~ p.gameStarted \/ ~ confirmed THEN p ELSE endGameInterrupted(p)

\* The quotients correctAnswers / totalQuestions = n / 200 of at most 1
\* whose product with 100 is x.5 exactly and falls below x.5 in double
\* precision: 29/200 gives 14.499999999999998, 57/200 28.499999999999996,
\* 113/200 56.49999999999999 and 115/200 57.49999999999999. Every other
\* product is rounded as its exact value is.
\* Math.round((correctAnswers / totalQuestions) * 100), or 0, for
\* 0 <= correctAnswers <= totalQuestions
accuracyRate(s) ==
    IF s.totalQuestions > 0
    THEN IF \E n \in {29, 57, 113, 115} :
                200 * s.correctAnswers = n * s.totalQuestions
         THEN RoundDiv(s.correctAnswers * 100, s.totalQuestions) - 1
         ELSE RoundDiv(s.correctAnswers * 100, s.totalQuestions)
    ELSE 0

isTop5(p, ranks) ==
    \/ IsTop5(ranks.correctAnswers, p.score.correctAnswers)
    \/ IsTop5(ranks.consecutiveAnswers, p.score.maxConsecutive)

updateRankingButtons(p, ranks, accuracy) ==
    [p EXCEPT !.rankingButtons = IF isTop5(p, ranks) THEN "block" ELSE "none",
              !.recordRankingBtn = Some(accuracy)]

\* findIndex(e => e.playerName === 'temp') + 1 in the sorted copy of the
\* list with the provisional entry, which is named temp: the place of the
\* first entry of that name
TempRank(list, entry) ==
    LET sorted == Sort(Append(list, entry))
    IN CHOOSE n \in 1..Len(sorted) :
           /\ sorted[n].playerName = "temp"
           /\ \A m \in 1..(n - 1) : sorted[m].playerName # "temp"

\* correctRank === 1 || consecutiveRank === 1
isFirst(p, ranks, accuracy) ==
    \/ /\ IsTop5(ranks.correctAnswers, p.score.correctAnswers)
       /\ TempRank(ranks.correctAnswers,
                   Entry("temp", p.score.correctAnswers,
                         p.score.totalQuestions, accuracy)) = 1
    \/ /\ IsTop5(ranks.consecutiveAnswers, p.score.maxConsecutive)
       /\ TempRank(ranks.consecutiveAnswers,
                   Entry("temp", p.score.maxConsecutive,
                         p.score.totalQuestions, accuracy)) = 1

checkRankingEffect(p, ranks, accuracy) ==
    IF ~ isTop5(p, ranks) THEN p
    ELSE [p EXCEPT !.videos =
              IF isFirst(p, ranks, accuracy)
              THEN playTopOverlayVideo(playBackgroundVideo(@))
              ELSE playOverlayVideo(playBackgroundVideo(@))]

showResultPopup(p, ranks) ==
    [checkRankingEffect(updateRankingButtons(p, ranks, accuracyRate(p.score)),
                        ranks, accuracyRate(p.score))
         EXCEPT !.resultPopup = "flex"]

endGame(p, ranks) ==
    [showResultPopup([clearTimer(p) EXCEPT !.gameStarted = FALSE], ranks)
         EXCEPT !.gameEnded = TRUE]

\* the callback of the countdown interval
countdown(p, ranks) ==
    IF p.timeLeft - 1 <= 0
    THEN endGame([p EXCEPT !.timeLeft = @ - 1], ranks)
    ELSE [p EXCEPT !.timeLeft = @ - 1]

\* Scored that does not count a correct answer
Scored_NoCount(s, isCorrect) ==
    IF isCorrect
    THEN [s EXCEPT !.totalQuestions = @ + 1,
                   !.consecutiveCorrect = @ + 1,
                   !.maxConsecutive =
                       IF s.consecutiveCorrect + 1 > @
                       THEN s.consecutiveCorrect + 1 ELSE @]
    ELSE [s EXCEPT !.totalQuestions = @ + 1, !.consecutiveCorrect = 0]

\* the score after selectAnswer has counted an answer
Scored(s, isCorrect) ==
    IF isCorrect
    THEN [s EXCEPT !.totalQuestions = @ + 1,
                   !.correctAnswers = @ + 1,
                   !.consecutiveCorrect = @ + 1,
                   !.maxConsecutive =
                       IF s.consecutiveCorrect + 1 > @
                       THEN s.consecutiveCorrect + 1 ELSE @]
    ELSE [s EXCEPT !.totalQuestions = @ + 1, !.consecutiveCorrect = 0]

isRankingFull(ranks) ==
    \/ Len(ranks.correctAnswers) >= maxRankingEntries
    \/ Len(ranks.consecutiveAnswers) >= maxRankingEntries

checkRankingDuringGame(p, ranks) ==
    IF p.hasPlayedRankinGako \/ ~ isRankingFull(ranks) THEN p
    ELSE IF isTop5(p, ranks) THEN [p EXCEPT !.hasPlayedRankinGako = TRUE]
    ELSE p

Disabled(buttons) ==
    [n \in 1..Len(buttons) |-> [buttons[n] EXCEPT !.disabled = TRUE]]

\* selectAnswer that leaves the choices as they are shown
selectAnswer_ChoicesStay(p, result, ranks) ==
    [checkRankingDuringGame(
         [p EXCEPT !.score = Scored(@, result.isCorrect),
                   !.timeLeft = IF result.isCorrect THEN @ + timeBonus ELSE @],
         ranks)
         EXCEPT !.nextTimeouts = @ + 1]

\* selectAnswer; result is what judgeAnswer returned
selectAnswer(p, result, ranks) ==
    [checkRankingDuringGame(
         [p EXCEPT !.answerChoices.visibility = "hidden",
                   !.score = Scored(@, result.isCorrect),
                   !.timeLeft = IF result.isCorrect THEN @ + timeBonus ELSE @],
         ranks)
         EXCEPT !.answerChoices.buttons = Disabled(@),
                !.nextTimeouts = @ + 1]

isResultPopupVisible(p) == p.resultPopup = "flex"

closeResultPopup(p) ==
    [p EXCEPT !.resultPopup = "none",
              !.videos = [resetPlayedFlag(stopAllVideos(@))
                              EXCEPT !.popupClosed = TRUE]]

resetGameState(p) ==
    [clearTimer([p EXCEPT !.gameStarted = FALSE,
                          !.score = ZeroScore,
                          !.timeLeft = gameSeconds,
                          !.hasPlayedRankinGako = FALSE])
         EXCEPT !.isSpinning = <<FALSE, FALSE, FALSE>>,
                !.currentQuestionData = None,
                !.currentQuestions = <<None, None, None>>,
                !.finalPositions = <<0, 0, 0>>,
                !.answerChoices = [visibility |-> "hidden", buttons |-> <<>>],
                !.videos = resetPlayedFlag(stopAllVideos(@))]

restartGame(p, ready, m) ==
    startGame(resetGameState(closeResultPopup(p)), ready, m)

returnToMenu(p) ==
    [clearTimer([closeResultPopup(p) EXCEPT !.gameStarted = FALSE,
                                            !.score = ZeroScore,
                                            !.timeLeft = gameSeconds,
                                            !.hasPlayedRankinGako = FALSE])
         EXCEPT !.videos = resetPlayedFlag(stopAllVideos(@)),
                !.answerChoices = [visibility |-> "hidden", buttons |-> <<>>]]

\* the keydown listener for the key Enter: both tests are made in turn
keyEnter(p, ready, m) ==
    IF isResultPopupVisible(IF ~ p.gameStarted THEN startGame(p, ready, m)
                            ELSE p)
    THEN restartGame(IF ~ p.gameStarted THEN startGame(p, ready, m) ELSE p,
                     ready, m)
    ELSE IF ~ p.gameStarted THEN startGame(p, ready, m) ELSE p

\* the keydown listener for the key Escape
keyEscape(p, confirmed) ==
    IF isResultPopupVisible(p) THEN returnToMenu(p)
    ELSE IF p.gameStarted THEN stopGame(p, confirmed)
    ELSE p

\* the rankings after recordRanking; trimmedName is the name that is
\* recorded
Recorded(ranks, trimmedName, s, accuracy) ==
    [correctAnswers |->
         IF IsTop5(ranks.correctAnswers, s.correctAnswers)
         THEN ListWith(ranks.correctAnswers,
                       Entry(trimmedName, s.correctAnswers, s.totalQuestions,
                             accuracy))
         ELSE ranks.correctAnswers,
     consecutiveAnswers |->
         IF IsTop5(ranks.consecutiveAnswers, s.maxConsecutive)
         THEN ListWith(ranks.consecutiveAnswers,
                       Entry(trimmedName, s.maxConsecutive, s.totalQuestions,
                             accuracy))
         ELSE ranks.consecutiveAnswers]

\* recordRanking; playerName is what prompt() returned, None when the
\* prompt was cancelled. `!playerName || !playerName.trim()` returns for
\* no name, the empty name and a name of white space; the name that is
\* recorded is playerName.trim(). An add method saves the rankings
recordRanking(playerName, accuracy) ==
    IF playerName = None \/ playerName[1] = "" \/ Trim(playerName[1]) = ""
    THEN /\ ret' = [op |-> "recordRanking", named |-> FALSE, added |-> FALSE]
         /\ UNCHANGED rankVars
    ELSE /\ rankings' = Recorded(rankings, Trim(playerName[1]), score,
                                 accuracy)
         /\ storedRankings' = IF rankings' # rankings THEN Some(rankings')
                              ELSE storedRankings
         /\ ret' = [op |-> "recordRanking", named |-> TRUE,
                    added |-> rankings' # rankings,
                    prompted |-> playerName[1]]

\* clearRankings of SlotUI; confirmed is the answer to confirm(). The lists
\* shown in the ranking popup, and the popup, are not part of the state
SlotUI_clearRankings(confirmed) ==
    IF confirmed THEN clearRankings
    ELSE /\ ret' = [op |-> "clearRankings", confirmed |-> FALSE]
         /\ UNCHANGED rankVars

\* fullRestart; confirmed is the answer to confirm(). closeResultPopup,
\* stopAllVideos of the video manager and resetGameState run in turn, the
\* rankings are cleared as by clearRankings of SlotRanking, and this.logic
\* becomes a new SlotLogic, whose fields are as its constructor leaves
\* them. The audio and the two screens are not part of the state
fullRestart(confirmed) ==
    IF confirmed
    THEN /\ \E p \in {resetGameState([closeResultPopup(Page)
                                          EXCEPT !.videos =
                                                     stopAllVideos(@)])} :
                /\ SetGame(p)
                /\ SetRound(p)
         /\ rankings' = NoRankings
         /\ storedRankings' = None
         /\ ans' = <<>>
         /\ availableLeftRows' = <<>>
         /\ availableCenterRows' = <<>>
         /\ availableRightRows' = <<>>
         /\ isDataLoaded' = FALSE
         /\ symbolHeight' = defaultSymbolHeight
         /\ visibleRows' = defaultVisibleRows
         /\ currentAnswer' = None
         /\ currentAnsRowNumber' = None
         /\ recentQuestions' = <<>>
         /\ ret' = [op |-> "fullRestart", confirmed |-> TRUE]
    ELSE /\ SetGame(Page)
         /\ SetRound(Page)
         /\ ret' = [op |-> "fullRestart", confirmed |-> FALSE]
         /\ UNCHANGED <<logicVars, rankVars>>

----------------------------------------------------------------------------
(* The selector *)

Init ==
    /\ ans = <<>>
    /\ availableLeftRows = <<>>
    /\ availableCenterRows = <<>>
    /\ availableRightRows = <<>>
    /\ isDataLoaded = FALSE
    /\ symbolHeight = defaultSymbolHeight
    /\ visibleRows = defaultVisibleRows
    /\ currentAnswer = None
    /\ currentAnsRowNumber = None
    /\ recentQuestions = <<>>
    /\ ret = [op |-> "constructor"]
    /\ picked = <<>>
    /\ everLoaded = FALSE
    /\ fileLoads = <<>>
    /\ workbook = None
    /\ problemsData = <<>>
    /\ timeLeft = gameSeconds
    /\ isSpinning = <<FALSE, FALSE, FALSE>>
    /\ finalPositions = <<0, 0, 0>>
    /\ currentQuestions = <<None, None, None>>
    /\ currentQuestionData = None
    /\ reelStopCompleted = <<FALSE, FALSE, FALSE>>
    /\ hasFinalizedQuestion = FALSE
    /\ answerChoices = [visibility |-> "", buttons |-> <<>>]
    /\ stopTimeouts = <<>>
    /\ stopAnimations = <<>>
    /\ ownCompleted = <<FALSE, FALSE, FALSE>>
    /\ answered = 0
    /\ gameStarted = FALSE
    /\ score = ZeroScore
    /\ gameTimer = None
    /\ intervals = {}
    /\ hasPlayedRankinGako = FALSE
    /\ resultPopup = ""
    /\ rankingButtons = ""
    /\ recordRankingBtn = None
    /\ startGames = 0
    /\ nextTimeouts = 0
    /\ gameEnded = FALSE
    /\ rankings = NoRankings
    /\ storedRankings = None
    /\ isPlaying = FALSE
    /\ hasPlayedOnce = FALSE
    /\ activeVideos = {}
    /\ videoDisplay = [v \in VideoNames |-> ""]
    /\ playPromises = <<>>
    /\ popupClosed = FALSE

LoadValidJson ==
    /\ \E jsonData \in ValidJsonInputs : setDataFromJson(jsonData)
    /\ UNCHANGED hostVars

Select ==
    /\ \E draws \in DrawSeqs(IF Len(ans) = 0 THEN 1 ELSE Len(ans)) :
           selectRandomQuestion(draws)
    /\ UNCHANGED hostVars

Next == LoadValidJson \/ Select

Spec == Init /\ [][Next]_vars

----------------------------------------------------------------------------
(* The selector on tables with unselectable rows of every kind *)

DefectJsonInputs ==
    { Json(a, RowList(3), RowList(3), RowList(3)) :
          a \in {DefectTable, BlankTable} }

LoadDefects ==
    /\ \E jsonData \in DefectJsonInputs : setDataFromJson(jsonData)
    /\ UNCHANGED hostVars

NextDefects == LoadDefects \/ Select

SpecDefects == Init /\ [][NextDefects]_vars

----------------------------------------------------------------------------
(* The selector on tables whose rows name reel rows, present or absent *)

\* every row of SmallTable is on the reels of three symbols or more; two
\* rows of StrayTable name row 9, which is on no reel
RefJsonInputs ==
    { Json(a, RowList(l), RowList(3), RowList(r)) :
          a \in {SmallTable, StrayTable}, l \in {3, 4}, r \in {3, 4} }

LoadRefs ==
    /\ \E jsonData \in RefJsonInputs : setDataFromJson(jsonData)
    /\ UNCHANGED hostVars

NextRefs == LoadRefs \/ Select

SpecRefs == Init /\ [][NextRefs]_vars

----------------------------------------------------------------------------
(* The store: loads that fail, replacement of the answer table *)

LoadJson ==
    /\ \E jsonData \in JsonInputs : setDataFromJson(jsonData)
    /\ UNCHANGED hostVars

ReplaceAns ==
    /\ \E isArray \in BOOLEAN, newAns \in StoreTables : setAns(isArray, newAns)
    /\ UNCHANGED hostVars

SelectFromStore ==
    /\ \E k \in EarlyStops, r \in 0..1, a \in 0..1 :
           selectRandomQuestion(Draws(2, k, r, a))
    /\ UNCHANGED hostVars

NextStore == LoadJson \/ ReplaceAns \/ SelectFromStore

SpecStore == Init /\ [][NextStore]_vars

----------------------------------------------------------------------------
(* Files read while documents are loaded *)

\* the rows of an Ans sheet: a plain row, a row whose cells are texts with
\* white space around them and a tag that is no number, a row of six cells
AnsSheetRows ==
    << <<Number(2), Number(3), Number(4), Text("a"), Text("e"), Text("f"),
         Text("g")>>,
       <<Text(" " \o VerticalTab \o "3"), Text("0x"), None,
         Text(VerticalTab \o "a "), Number(7), Number(0),
         Text("g")>>,
       <<Number(4), Number(2), Number(3), Text("a"), Text("e"), Text("f")>> >>

\* the rows of a question sheet with a blank row in the middle
QueSheetRows == << <<Text("1"), Text("q")>>, <<>>, <<Text("2")>> >>

Sheets(a, l, c, r) == [Ans |-> a, Que_L |-> l, Que_C |-> c, Que_R |-> r]

ExcelFile(read, sheets) == [read |-> read, sheets |-> sheets]

GoodSheets ==
    Sheets(Some(AnsSheetRows), Some(QueSheetRows), Some(QueSheetRows),
           Some(QueSheetRows))

\* a file that cannot be read, a file XLSX.read rejects, a workbook without
\* the sheet Que_C, a workbook whose Ans rows are all too short, a workbook
\* whose sheet Que_R holds blank rows only, a workbook that is loaded
ExcelFiles ==
    { ExcelFile("error", GoodSheets),
      ExcelFile("corrupt", GoodSheets),
      ExcelFile("ok", [GoodSheets EXCEPT !.Que_C = None]),
      ExcelFile("ok", [GoodSheets EXCEPT
                           !.Ans = Some(SubSeq(AnsSheetRows, 3, 3))]),
      ExcelFile("ok", [GoodSheets EXCEPT !.Que_R = Some(<< <<>> >>)]),
      ExcelFile("ok", GoodSheets) }

ZipFile(unzip, excel) == [unzip |-> unzip, excel |-> excel]

\* no archive, an archive without an Excel file, archives with an Excel
\* file that is rejected, that lacks a sheet, that is loaded
ZipFiles ==
    { ZipFile("error", None),
      ZipFile("ok", None),
      ZipFile("ok", Some(ExcelFile("corrupt", GoodSheets))),
      ZipFile("ok", Some(ExcelFile("ok", [GoodSheets EXCEPT !.Que_L = None]))),
      ZipFile("ok", Some(ExcelFile("ok", GoodSheets))) }

\* a document that is loaded and one whose lists are empty
FileJsonInputs ==
    { Json(SmallTable, RowList(3), RowList(3), RowList(3)),
      Json(SmallTable, <<>>, <<>>, <<>>) }

\* the suspended calls of an operation at a stage
Suspended(op, stage) ==
    { n \in 1..Len(fileLoads) :
          fileLoads[n].op = op /\ fileLoads[n].stage = stage }

LoadFileJson ==
    /\ \E jsonData \in FileJsonInputs : setDataFromJson(jsonData)
    /\ UNCHANGED hostVars

LoadExcel ==
    /\ Len(fileLoads) < MaxPending
    /\ \E file \in ExcelFiles : loadFromExcelFile(file)
    /\ UNCHANGED <<workbook, problemsData, uiVars, pageVars>>

ExcelRead ==
    /\ \E n \in Suspended("loadFromExcelFile", "read") :
           loadFromExcelFileResumed(n)
    /\ UNCHANGED <<workbook, problemsData, uiVars, pageVars>>

LoadZip ==
    /\ Len(fileLoads) < MaxPending
    /\ \E file \in ZipFiles : loadFromZipFile(file)
    /\ UNCHANGED <<workbook, problemsData, uiVars, pageVars>>

ZipUnzipped ==
    /\ \E n \in Suspended("loadFromZipFile", "unzip") :
           loadFromZipFileUnzipped(n)
    /\ UNCHANGED <<workbook, problemsData, uiVars, pageVars>>

ZipRead ==
    /\ \E n \in Suspended("loadFromZipFile", "read") : loadFromZipFileRead(n)
    /\ UNCHANGED <<workbook, problemsData, uiVars, pageVars>>

ZipLoaded ==
    /\ \E n \in Suspended("loadFromZipFile", "media") :
           loadFromZipFileLoaded(n)
    /\ UNCHANGED <<workbook, problemsData, uiVars, pageVars>>

SelectFromFile ==
    /\ \E k \in EarlyStops, r \in 0..1, a \in 0..1 :
           selectRandomQuestion(Draws(2, k, r, a))
    /\ UNCHANGED hostVars

NextFiles ==
    \/ LoadFileJson \/ LoadExcel \/ ExcelRead \/ LoadZip \/ ZipUnzipped
    \/ ZipRead \/ ZipLoaded \/ SelectFromFile

SpecFiles == Init /\ [][NextFiles]_vars

----------------------------------------------------------------------------
(* The reel position mapper *)

ReelTypes == {"left", "center", "right"}
\* documents whose reel lists have 1, 5 or MaxReelLen rows, ascending or
\* descending, and one with short lists of 3 and 2 rows
MapperJsonInputs ==
    { Json(SmallTable, RowList(1), RowList(5), RowList(MaxReelLen)),
      Json(SmallTable, RowList(MaxReelLen), DescList(1), DescList(5)),
      Json(SmallTable, DescList(5), DescList(MaxReelLen), RowList(1)),
      Json(SmallTable, RowList(3), DescList(3), RowList(2)) }

\* measurements of the page: three symbols of one height, or none measured,
\* and the height of the column that shows one or three symbols (or is absent)
SymbolHeights == {100, 250}
ColumnSymbols == {1, 3}

LoadReels ==
    /\ \E jsonData \in MapperJsonInputs : setDataFromJson(jsonData)
    /\ UNCHANGED hostVars

Measure ==
    /\ \E h \in SymbolHeights, count \in {0, 3}, hasColumn \in BOOLEAN,
          n \in ColumnSymbols :
           syncGeometry(count * h, count, hasColumn, n * h)
    /\ UNCHANGED hostVars

\* a row of the reel, or a row number no reel list contains
AskPosition ==
    /\ \E reelType \in ReelTypes, randomIndex \in {0, fallbackPositions - 1} :
           \E targetRowNumber \in
                  {RowNumbers(reelType)[i] : i \in 1..Len(RowNumbers(reelType))}
                  \cup {MaxReelLen + 2} :
               getPositionForQuestion(targetRowNumber, reelType, randomIndex)
    /\ UNCHANGED hostVars

\* the position the last getPositionForQuestion call returned
AskRow ==
    /\ /\ ret.op = "getPositionForQuestion"
       /\ getQuestionFromPosition(ret.result, ret.reelType)
    /\ UNCHANGED hostVars

\* a position that is a multiple of symbolHeight: below, at and above zero,
\* among the fallback positions, and beyond the longest list
PositionMultiples == {-(MaxReelLen + 1), -9, -1, 0, 1, 9, MaxReelLen + 1}

AskRowAt ==
    /\ \E reelType \in ReelTypes, m \in PositionMultiples :
           getQuestionFromPosition(m * symbolHeight, reelType)
    /\ UNCHANGED hostVars

NextMapper == LoadReels \/ Measure \/ AskPosition \/ AskRow \/ AskRowAt

SpecMapper == Init /\ [][NextMapper]_vars

----------------------------------------------------------------------------
(* The answer choices *)

\* a table with questions to select and one on which every selection fails
ChoiceJsonInputs ==
    { Json(a, RowList(3), RowList(3), RowList(3)) :
          a \in {SmallTable, BlankTable} }

\* image paths a player may submit: the three choices of the first rows of
\* the answer sheet, and a path that names no choice
SubmittedPaths ==
    { ImagePath(folder, n) :
          folder \in {ansCorrectPath, ansWrong1Path, ansWrong2Path},
          n \in 2..4 }
    \cup { ImagePath("", 0) }

LoadChoices ==
    /\ \E jsonData \in ChoiceJsonInputs : setDataFromJson(jsonData)
    /\ UNCHANGED hostVars

SelectChoice ==
    /\ \E k \in EarlyStops, r \in 0..1, a \in 0..1 :
           selectRandomQuestion(Draws(2, k, r, a))
    /\ UNCHANGED hostVars

Judge ==
    /\ \E selectedImagePath \in SubmittedPaths : judgeAnswer(selectedImagePath)
    /\ UNCHANGED hostVars

\* the draws of the shuffle of three choices: js[2] in 0..2, js[1] in 0..1
BuildChoices ==
    /\ \E j2 \in 0..2, j1 \in 0..1 : generateAnswerChoices(<<j1, j2>>)
    /\ UNCHANGED hostVars

NextChoice == LoadChoices \/ SelectChoice \/ Judge \/ BuildChoices

SpecChoice == Init /\ [][NextChoice]_vars

----------------------------------------------------------------------------
(* The combination generator *)

\* the question sheet of a reel with the given type cells; the question of
\* row r is the letter of the reel followed by r
QueSheet(letter, types) ==
    [n \in 1..Len(types) |->
         [A |-> types[n], B |-> Some(letter \o String(n + 1))]]

\* type cells 1, 2, 1, ...
PlainTypes == [n \in 1..MaxQue |-> Some(String(2 - (n % 2)))]

\* PlainTypes with one cell replaced
OneDefect(n, cell) == [PlainTypes EXCEPT ![n] = cell]

\* cells that make a row's tag unusable: no digit, the prefix of a
\* hexadecimal number without a digit, no cell
DefectCells == {Some("x"), Some("0x"), None}

\* the type cells of the three sheets: no defect, or one defect in one row
\* of one sheet
QueTypes ==
    { <<PlainTypes, PlainTypes, PlainTypes>> }
    \cup { <<OneDefect(n, cell), PlainTypes, PlainTypes>> :
               n \in 1..MaxQue, cell \in DefectCells }
    \cup { <<PlainTypes, OneDefect(n, cell), PlainTypes>> :
               n \in 1..MaxQue, cell \in DefectCells }
    \cup { <<PlainTypes, PlainTypes, OneDefect(n, cell)>> :
               n \in 1..MaxQue, cell \in DefectCells }

PairSheet(pairs) == [n \in 1..Len(pairs) |->
                         [A |-> Some(pairs[n][1]), B |-> Some(pairs[n][2])]]

\* constraint sheets LC, LR, CR: equal tags only, or pairs that differ
\* between the sheets, one tag written with a trailing character
ConstraintSheets ==
    { [LC |-> PairSheet(<< <<"1", "1">>, <<"2", "2">> >>),
       LR |-> PairSheet(<< <<"1", "1">>, <<"2", "2">> >>),
       CR |-> PairSheet(<< <<"1", "1">>, <<"2", "2">> >>)],
      [LC |-> PairSheet(<< <<"1", "1">>, <<"1", "2">> >>),
       LR |-> PairSheet(<< <<"1", "2x">>, <<"2", "2">> >>),
       CR |-> PairSheet(<< <<"1", "2">>, <<"2", "2">>, <<"1", "1">> >>)] }

AnsSheetRow(l, c, r) ==
    [A |-> Some(String(l)), B |-> Some(String(c)), C |-> Some(String(r)),
     I |-> None]

\* Ans sheets before generation: no row, one row, two rows, the same row
\* twice
AnsSheets ==
    { <<>>,
      << AnsSheetRow(2, 2, 2) >>,
      << AnsSheetRow(2, 2, 2), AnsSheetRow(2, 3, 3) >>,
      << AnsSheetRow(2, 2, 2), AnsSheetRow(2, 2, 2) >> }

Workbooks ==
    { [Que_L |-> QueSheet("L", t[1]), Que_C |-> QueSheet("C", t[2]),
       Que_R |-> QueSheet("R", t[3]),
       LC |-> k.LC, LR |-> k.LR, CR |-> k.CR, Ans |-> a] :
          t \in QueTypes, k \in ConstraintSheets, a \in AnsSheets }

ReadFile ==
    /\ \E book \in Workbooks : processFile(book)
    /\ UNCHANGED <<uiVars, pageVars>>

Generate ==
    /\ generateProblems
    /\ UNCHANGED <<uiVars, pageVars>>

NextGenerator == ReadFile \/ Generate

SpecGenerator == Init /\ [][NextGenerator]_vars

----------------------------------------------------------------------------
(* A game on the page *)

\* a table on which every selection fails, and one with three selectable
\* rows, two of them naming a row that is on no reel
UiJsonInputs ==
    { Json(a, RowList(3), RowList(3), RowList(3)) :
          a \in {BlankTable, StrayTable} }

LoadGame ==
    /\ \E jsonData \in UiJsonInputs : setDataFromJson(jsonData)
    /\ UNCHANGED hostVars

\* syncGeometry on a page whose column shows one or three symbols; startGame
\* calls it before the first round
MeasureGame ==
    /\ stopTimeouts = <<>>
    /\ stopAnimations = <<>>
    /\ \E n \in ColumnSymbols :
           syncGeometry(3 * defaultSymbolHeight, 3, TRUE,
                        n * defaultSymbolHeight)
    /\ UNCHANGED hostVars

\* startGame and the timeout of selectAnswer call startNextQuestion; a game
\* starts only when the data are ready, and here a round starts when the
\* stop timeouts of the round before have fired and its animations ended
NextQuestion ==
    /\ isDataReady
    /\ stopTimeouts = <<>>
    /\ stopAnimations = <<>>
    /\ \E a \in 0..(Len(ans) - 1) :
           startNextQuestion(Draws(Len(ans), 1, 0, a))
    /\ UNCHANGED <<toolVars, pageVars>>

StopTimeout ==
    /\ \E r \in 1..Len(stopTimeouts),
          randomIndex \in {0, fallbackPositions - 1} :
           stopReel(r, randomIndex)
    /\ UNCHANGED <<toolVars, pageVars>>

AnimationEnds ==
    /\ \E n \in 1..Len(stopAnimations), js \in {<<0, 0>>, <<1, 2>>} :
           stopAnimation(n, js)
    /\ UNCHANGED <<toolVars, pageVars>>

NextUI == LoadGame \/ MeasureGame \/ NextQuestion \/ StopTimeout
              \/ AnimationEnds

SpecUI == Init /\ [][NextUI]_vars

----------------------------------------------------------------------------
(* The ranking lists *)

\* results of games: points, questions asked, accuracy in percent
CorrectResults == {<<1, 2, 50>>, <<1, 1, 100>>, <<2, 2, 100>>}
ConsecutiveResults == {<<1, 1, 100>>}

AddCorrect ==
    /\ \E r \in CorrectResults : addCorrectAnswersEntry("a", r[1], r[2], r[3])
    /\ UNCHANGED <<logicVars, picked, everLoaded, toolVars, uiVars, gameVars,
                   videoVars>>

AddConsecutive ==
    /\ \E r \in ConsecutiveResults :
           addConsecutiveAnswersEntry("a", r[1], r[2], r[3])
    /\ UNCHANGED <<logicVars, picked, everLoaded, toolVars, uiVars, gameVars,
                   videoVars>>

ClearRankings ==
    /\ clearRankings
    /\ UNCHANGED <<logicVars, picked, everLoaded, toolVars, uiVars, gameVars,
                   videoVars>>

NextRanking == AddCorrect \/ AddConsecutive \/ ClearRankings

SpecRanking == Init /\ [][NextRanking]_vars

----------------------------------------------------------------------------
(* The rank-in videos *)

\* what the video actions leave alone
VideoFrame ==
    UNCHANGED <<logicVars, picked, everLoaded, toolVars, uiVars, rankVars,
                gameStarted, score, gameTimer, intervals, hasPlayedRankinGako,
                rankingButtons, recordRankingBtn, startGames, nextTimeouts,
                gameEnded>>

\* checkRankingEffect plays the background video and one of the overlays
PlayVideos ==
    /\ Len(playPromises) + 2 <= MaxPending
    /\ \E overlay \in {"overlay", "topOverlay"} :
           /\ SetVideos(playOverlay(playBackgroundVideo(Videos), overlay))
           /\ ret' = [op |-> "playBackgroundVideo", overlay |-> overlay]
    /\ UNCHANGED resultPopup
    /\ VideoFrame

PlayFulfilled ==
    /\ \E n \in 1..Len(playPromises) : SetVideos(playFulfilled(Videos, n))
    /\ ret' = [op |-> "playFulfilled"]
    /\ UNCHANGED resultPopup
    /\ VideoFrame

PlayRejected ==
    /\ \E n \in 1..Len(playPromises) : SetVideos(playRejected(Videos, n))
    /\ ret' = [op |-> "playRejected"]
    /\ UNCHANGED resultPopup
    /\ VideoFrame

\* a video that is shown plays to its end
VideoEnded ==
    /\ \E name \in VideoNames :
           /\ videoDisplay[name] = "block"
           /\ SetVideos(videoEnded(Videos, name))
           /\ ret' = [op |-> "ended", video |-> name]
    /\ UNCHANGED resultPopup
    /\ VideoFrame

VideoError ==
    /\ \E name \in VideoNames :
           /\ SetVideos(videoError(Videos, name))
           /\ ret' = [op |-> "error", video |-> name]
    /\ UNCHANGED resultPopup
    /\ VideoFrame

ClosePopup ==
    /\ SetVideos(closeResultPopup(Page).videos)
    /\ resultPopup' = closeResultPopup(Page).resultPopup
    /\ ret' = [op |-> "closeResultPopup"]
    /\ VideoFrame

NextVideo ==
    PlayVideos \/ PlayFulfilled \/ PlayRejected \/ VideoEnded \/ VideoError
        \/ ClosePopup

SpecVideo == Init /\ [][NextVideo]_vars

----------------------------------------------------------------------------
(* A game with its countdown, its keys and its timeouts *)

\* One table of selectable rows; the page always measures the same; the
\* random sources give the first acceptable row, one order of the choices
\* and the first fallback position. While more than LastSeconds are left
\* the countdown passes them in one step. Two specifications share the
\* actions. In SpecGame the three reels of a question come to rest before
\* anything else happens, and the player presses every key and button, so
\* that games start, are interrupted, end and restart in every order. In
\* SpecRounds one game is started and its first seconds are played: every
\* reel timeout, animation and next-question timeout that is pending may be
\* the next to run, and the player answers whenever a choice can be chosen.

GameJson == Json(GoodTable, RowList(3), RowList(3), RowList(3))

GameMeasure ==
    [totalHeight |-> 3 * defaultSymbolHeight, count |-> 3, hasColumn |-> TRUE,
     columnHeight |-> 3 * defaultSymbolHeight]

GameDraws == Draws(MaxAns, 1, 0, 0)
GameShuffle == <<1, 2>>

\* what a handler of the game leaves alone
GameFrame ==
    UNCHANGED <<ans, availableLeftRows, availableCenterRows,
                availableRightRows, isDataLoaded, currentAnswer,
                currentAnsRowNumber, recentQuestions, picked, everLoaded,
                toolVars, reelStopCompleted, hasFinalizedQuestion,
                stopTimeouts, stopAnimations, ownCompleted, answered,
                rankVars>>

\* a handler that takes the page p to another state
PageStep(p, op) ==
    /\ p # Page
    /\ p.startGames <= MaxPending
    /\ Len(p.videos.playPromises) <= MaxPending
    /\ SetGame(p)
    /\ SetRound(p)
    /\ SetGeometry(p)
    /\ ret' = [op |-> op]
    /\ GameFrame

LoadPage ==
    /\ ~ isDataLoaded
    /\ setDataFromJson(GameJson)
    /\ UNCHANGED hostVars

ClickStart == PageStep(startGame(Page, isDataReady, GameMeasure), "startGame")

\* enableAudio() has completed and startGame goes on
GameResumes ==
    /\ startGames > 0
    /\ Len(picked) < MaxRounds
    /\ SetGame(startGameResumed(Page))
    /\ timeLeft' = startGameResumed(Page).timeLeft
    /\ StartQuestion(GameDraws)
    /\ UNCHANGED <<toolVars, rankVars>>

\* the interval fires once
Tick ==
    /\ intervals # {}
    /\ timeLeft <= LastSeconds
    /\ PageStep(countdown(Page, rankings), "countdown")

\* the interval fires until LastSeconds are left
Idle ==
    /\ intervals # {}
    /\ timeLeft > LastSeconds
    /\ PageStep([Page EXCEPT !.timeLeft = LastSeconds], "countdown")

ReelTimeout ==
    /\ \E r \in 1..Len(stopTimeouts) : stopReel(r, 0)
    /\ UNCHANGED <<toolVars, pageVars>>

ReelStops ==
    /\ \E n \in 1..Len(stopAnimations) : stopAnimation(n, GameShuffle)
    /\ UNCHANGED <<toolVars, pageVars>>

\* a key 1, 2 or 3, or a click on a choice: a disabled button gives no click
ChooseAnswer ==
    /\ answerChoices.visibility = "visible"
    /\ nextTimeouts < MaxPending
    /\ \E i \in 1..Len(answerChoices.buttons) :
           /\ ~ answerChoices.buttons[i].disabled
           /\ \E p \in {selectAnswer(Page,
                            JudgeResult(currentAnswer, currentAnsRowNumber,
                                        answerChoices.buttons[i].imagePath[1]),
                            rankings)} :
                 /\ SetGame(p)
                 /\ SetRound(p)
                 /\ ret' = [op |-> "selectAnswer", choice |-> i,
                            scored |-> p.score.totalQuestions]
    /\ answered' = answered + 1
    /\ UNCHANGED <<logicVars, picked, everLoaded, toolVars, reelStopCompleted,
                   hasFinalizedQuestion, stopTimeouts, stopAnimations,
                   ownCompleted, rankVars>>

\* the timeout selectAnswer set, a second after the answer
NextQuestionTimeout ==
    /\ nextTimeouts > 0
    /\ SetGame([Page EXCEPT !.nextTimeouts = @ - 1])
    /\ IF timeLeft > 0
       THEN /\ Len(picked) < MaxRounds
            /\ StartQuestion(GameDraws)
            /\ UNCHANGED timeLeft
       ELSE /\ answerChoices' = [answerChoices EXCEPT !.buttons = <<>>]
            /\ ret' = [op |-> "nextQuestionTimeout"]
            /\ UNCHANGED <<logicVars, picked, everLoaded, timeLeft, isSpinning,
                           finalPositions, currentQuestions,
                           currentQuestionData, reelStopCompleted,
                           hasFinalizedQuestion, stopTimeouts, stopAnimations,
                           ownCompleted, answered>>
    /\ UNCHANGED <<toolVars, rankVars>>

PressEnter == PageStep(keyEnter(Page, isDataReady, GameMeasure), "keyEnter")

PressEscape ==
    \E confirmed \in BOOLEAN :
        PageStep(keyEscape(Page, confirmed), "keyEscape")

ClickStop ==
    \E confirmed \in BOOLEAN : PageStep(stopGame(Page, confirmed), "stopGame")

\* the buttons of the result popup
ClickRestart ==
    /\ isResultPopupVisible(Page)
    /\ PageStep(restartGame(Page, isDataReady, GameMeasure), "restartGame")

ClickMenu ==
    /\ isResultPopupVisible(Page)
    /\ PageStep(returnToMenu(Page), "returnToMenu")

ClickClose ==
    /\ isResultPopupVisible(Page)
    /\ PageStep(closeResultPopup(Page), "closeResultPopup")

\* no reel is about to stop or stopping
ReelsAtRest == stopTimeouts = <<>> /\ stopAnimations = <<>>

AtRest ==
    /\ ReelsAtRest
    /\ \/ ClickStart \/ GameResumes \/ Tick \/ Idle \/ ChooseAnswer
       \/ NextQuestionTimeout \/ PressEnter \/ PressEscape \/ ClickStop
       \/ ClickRestart \/ ClickMenu \/ ClickClose

NextGame == LoadPage \/ ReelTimeout \/ ReelStops \/ AtRest

SpecGame == Init /\ [][NextGame]_vars

FirstStart ==
    /\ picked = <<>>
    /\ ClickStart

NextRounds ==
    LoadPage \/ FirstStart \/ GameResumes \/ NextQuestionTimeout
        \/ ReelTimeout \/ ReelStops \/ ChooseAnswer

SpecRounds == Init /\ [][NextRounds]_vars

----------------------------------------------------------------------------
(* Games and the record of their scores *)

\* Games are played as in SpecGame until the time is up; ranking files are
\* imported, and the player presses the record button of the result popup
\* and cancels the prompt or gives a name: the empty name, a name of white
\* space, or a name with or without white space around it. The player
\* also presses the buttons that clear the rankings and that restart the
\* whole system, and confirms or declines. The data are loaded once, by
\* a document that is not among the sources, into the SlotLogic the page
\* starts with (window.slotLogic); a SlotLogic that fullRestart creates
\* after that is another object and stays without data. A file holds two
\* lists of n entries with one correct answer each: one entry fewer than
\* isCorrectAnswersTop5 asks for, or just as many.

RankingFile(n) ==
    Some([rankings |->
              Some([correctAnswers |->
                        [i \in 1..n |-> Entry("cpu", 1, 2, 50)],
                    consecutiveAnswers |->
                        [i \in 1..n |-> Entry("cpu", 1, 2, 50)]])])

\* lists of videoThreshold entries whose first entry is named temp and has
\* more points than a game of the model ends with
TempList ==
    [i \in 1..videoThreshold |->
         IF i = 1 THEN Entry("temp", MaxRounds + 1, MaxRounds + 1, 100)
         ELSE Entry("cpu", 1, 2, 50)]

TempRankingFile ==
    Some([rankings |->
              Some([correctAnswers |-> TempList,
                    consecutiveAnswers |-> TempList])])

RankingFiles ==
    {RankingFile(videoThreshold - 1), RankingFile(videoThreshold),
     TempRankingFile}

LoadOnce ==
    /\ ~ everLoaded
    /\ LoadPage

RecordFrame ==
    UNCHANGED <<logicVars, picked, everLoaded, toolVars, uiVars, gameVars,
                videoVars>>

ImportRankings ==
    /\ \E importData \in RankingFiles : importRankings(importData)
    /\ RecordFrame

\* what prompt() returns
PlayerNames ==
    {None, Some(""), Some(" " \o VerticalTab), Some("player"),
     Some(" player" \o VerticalTab)}

RecordRanking ==
    /\ recordRankingBtn # None
    /\ Len(rankings.correctAnswers) <= videoThreshold
    /\ Len(rankings.consecutiveAnswers) <= videoThreshold
    /\ \E playerName \in PlayerNames :
           recordRanking(playerName, recordRankingBtn[1])
    /\ RecordFrame

ClickClearRankings ==
    /\ \E confirmed \in BOOLEAN : SlotUI_clearRankings(confirmed)
    /\ RecordFrame

ClickFullRestart ==
    /\ \E confirmed \in BOOLEAN : fullRestart(confirmed)
    /\ UNCHANGED <<picked, everLoaded, toolVars, reelStopCompleted,
                   hasFinalizedQuestion, stopTimeouts, stopAnimations,
                   ownCompleted, answered>>

Played ==
    /\ ReelsAtRest
    /\ \/ ClickStart \/ GameResumes \/ Tick \/ Idle \/ ChooseAnswer
       \/ NextQuestionTimeout

NextRecord ==
    LoadOnce \/ ReelTimeout \/ ReelStops \/ Played \/ ImportRankings
        \/ RecordRanking \/ ClickClearRankings \/ ClickFullRestart
        \/ PlayFulfilled \/ PlayRejected

SpecRecord == Init /\ [][NextRecord]_vars

----------------------------------------------------------------------------
(* Vocabulary of the properties *)

\* the last n elements of a sequence
LastN(seq, n) == SubSeq(seq, Len(seq) - n + 1, Len(seq))

Min(x, y) == IF x <= y THEN x ELSE y

SelectCalled == ret.op = "selectRandomQuestion"
SelectSucceeded == SelectCalled /\ ret.result # None
SelectFailed == SelectCalled /\ ret.result = None
ReturnedIndex == ret.result[1].ansRowNumber - 2

\* the indices of the successful selections before the last one
PriorPicks == SubSeq(picked, 1, Len(picked) - 1)

----------------------------------------------------------------------------
(* Properties of the selector and the store *)

\* C2: selectRandomQuestion returns the first acceptable index among its
\* draws wherever in 1..50 that draw occurs, having drawn no further, and
\* returns null only when none of the 50 draws is acceptable.
C2_ReturnsFirstAcceptable ==
    (SelectCalled /\ ret.ready) =>
        IF ret.firstOk # 0
        THEN /\ ret.result # None
             /\ ReturnedIndex = ret.firstOkIndex
             /\ ret.attempts = ret.firstOk
        ELSE ret.result = None

\* C3: with at least 4 selectable rows, a successful selection returns an
\* index that none of the 3 most recent prior successful selections returned.
C3_NoRecentRepeat ==
    (SelectSucceeded /\ Cardinality(SelectableIndices(ans)) >= 4) =>
        ~ Includes(LastN(PriorPicks, Min(3, Len(PriorPicks))), ReturnedIndex)

C3_Witness ==
    /\ SelectSucceeded
    /\ Cardinality(SelectableIndices(ans)) >= 4
    /\ Len(PriorPicks) >= 3
    /\ ret.attempts > 1

\* C4: the answer row of a returned question has non-zero row_L, row_C and
\* row_R and non-blank ans, lie_answer1 and lie_answer2.
C4_ReturnedRowValid ==
    SelectSucceeded =>
        /\ RowSelectable(ret.result[1].answer)
        /\ ret.result[1].answer = ans[ReturnedIndex + 1]

\* the draws passed over an unselectable row of every kind before the
\* returned one
C4_Witness ==
    /\ SelectSucceeded
    /\ ans = DefectTable
    /\ ret.attempts = 10

\* C5: a call on a ready store none of whose rows is selectable makes
\* exactly 50 draws, returns null and leaves recentQuestions unchanged.
C5_ExhaustsAfterFifty ==
    [][(ret'.op = "selectRandomQuestion" /\ isDataReady
            /\ SelectableIndices(ans) = {})
        => (/\ ret'.attempts = 50
            /\ ret'.result = None
            /\ recentQuestions' = recentQuestions)]_vars

C5_Witness ==
    /\ SelectFailed
    /\ isDataReady
    /\ SelectableIndices(ans) = {}
    /\ ret.attempts = 50
    /\ recentQuestions # <<>>

\* C6: recentQuestions holds at most 3 entries, which are in order the
\* indices of the last min(3, n) successful selections.
C6_HistoryIsLastThree ==
    /\ Len(recentQuestions) <= 3
    /\ recentQuestions = LastN(picked, Min(3, Len(picked)))

C6_Witness ==
    /\ Len(picked) >= 4
    /\ SelectFailed
    /\ ret.ready

\* C7: isDataReady() is true iff some load completed and the four
\* collections are non-empty; a setDataFromJson call with an empty
\* collection throws and leaves the store not ready, in which state
\* selectRandomQuestion returns null without drawing.
C7_ReadyIffLoadedAndNonEmpty ==
    /\ isDataReady <=>
          (/\ everLoaded
           /\ ans # <<>>
           /\ availableLeftRows # <<>>
           /\ availableCenterRows # <<>>
           /\ availableRightRows # <<>>)
    /\ (ret.op = "setDataFromJson" /\ ret.anyEmpty) =>
          (ret.threw /\ ~ isDataReady)
    /\ (SelectCalled /\ ~ isDataReady) =>
          (ret.result = None /\ ret.attempts = 0)

C7_Witness ==
    /\ everLoaded
    /\ ~ isDataReady
    /\ ans # <<>>
    /\ SelectFailed
    /\ ret.attempts = 0

\* the indices the history holds
Recent(recent) == { recent[m] : m \in 1..Len(recent) }

\* C23: on a table with k <= 3 selectable rows, the history holds every
\* selectable index once k selections have succeeded; from then on every
\* call returns null and leaves the history as it is, so that the next
\* call fails as well.
C23_ExhaustedHistoryFailsForever ==
    [][(/\ ret'.op = "selectRandomQuestion"
        /\ isDataReady
        /\ Cardinality(SelectableIndices(ans)) <= 3)
       => (/\ (Len(picked') >= Cardinality(SelectableIndices(ans)))
                  => SelectableIndices(ans) \subseteq Recent(recentQuestions')
           /\ (SelectableIndices(ans) \subseteq Recent(recentQuestions))
                  => (/\ ret'.result = None
                      /\ ret'.attempts = 50
                      /\ recentQuestions' = recentQuestions))]_vars

\* a call that failed on the table with three selectable rows after each of
\* them had been selected once
C23_Witness ==
    /\ SelectFailed
    /\ ans = DefectTable
    /\ Len(picked) = 3
    /\ Recent(recentQuestions) = SelectableIndices(ans)
    /\ ret.attempts = 50

\* C19: for every data set setDataFromJson accepts, a question returned by
\* selectRandomQuestion has row_L in availableLeftRows, row_C in
\* availableCenterRows and row_R in availableRightRows.
C19_ReturnedRowsOnReels ==
    SelectSucceeded =>
        /\ Includes(availableLeftRows, ret.result[1].left.rowNumber)
        /\ Includes(availableCenterRows, ret.result[1].center.rowNumber)
        /\ Includes(availableRightRows, ret.result[1].right.rowNumber)

----------------------------------------------------------------------------
(* Properties of the reel position mapper *)

\* C1: with visibleRows 1 or 3 and symbolHeight > 0, the row read back from
\* the position computed for a row of the reel's list is that row.
C1_RoundTrip ==
    (/\ ret.op = "getQuestionFromPosition"
     /\ ret.after # None
     /\ visibleRows \in {1, 3}
     /\ symbolHeight > 0) =>
        (ret.after[1].found =>
             ret.result = Some(ret.after[1].targetRowNumber))

\* the round trip of the first row of the longest list with three visible
\* rows, which wraps to the tail of the list
C1_Witness ==
    /\ ret.op = "getQuestionFromPosition"
    /\ ret.after # None
    /\ ret.after[1].found
    /\ visibleRows = 3
    /\ Len(RowNumbers(ret.reelType)) = MaxReelLen
    /\ ret.result = Some(RowNumbers(ret.reelType)[1])
    /\ ret.position = (MaxReelLen - 1) * (-symbolHeight)

\* the list and the 0-based list index of the target of the last
\* getPositionForQuestion call
AskedList == RowNumbers(ret.reelType)
AskedIndex == FindIndex(AskedList, ret.targetRowNumber)

PositionAsked == ret.op = "getPositionForQuestion"
RowAsked == ret.op = "getQuestionFromPosition"

\* C11: with visibleRows = 3 and a reel list of length n >= 1,
\* getPositionForQuestion for the row at list index i returns
\* -((i - 1) mod n) * symbolHeight; index 0 maps to topIndex n - 1 and the
\* position is never positive.
C11_WrapsToTail ==
    (PositionAsked /\ ret.found /\ visibleRows = 3) =>
        /\ ret.result = -(((AskedIndex - 1) % Len(AskedList)) * symbolHeight)
        /\ AskedIndex = 0 => ret.result = -((Len(AskedList) - 1) * symbolHeight)
        /\ ret.result <= 0

\* the first row of the longest list, which maps to the tail
C11_Witness ==
    /\ PositionAsked
    /\ ret.found
    /\ visibleRows = 3
    /\ Len(AskedList) = MaxReelLen
    /\ AskedIndex = 0
    /\ ret.result = -((MaxReelLen - 1) * symbolHeight)

\* C12: for every visibleRows >= 1, every reel list of length n >= 1 and
\* every target row of the list, getPositionForQuestion returns
\* -topIndex * symbolHeight with 0 <= topIndex < n, and
\* getQuestionFromPosition of that position returns the target row.
C12_WrapsModuloLength ==
    /\ (PositionAsked /\ ret.found) =>
           \E topIndex \in 0..(Len(AskedList) - 1) :
               ret.result = -(topIndex * symbolHeight)
    /\ (RowAsked /\ ret.after # None) =>
           (ret.after[1].found =>
                ret.result = Some(ret.after[1].targetRowNumber))

\* C13: getPositionForQuestion with a target row absent from the reel's list
\* returns -i * symbolHeight for some i in 0..9 and changes no SlotLogic
\* state.
C13_FallbackPosition ==
    [][(ret'.op = "getPositionForQuestion" /\ ~ ret'.found) =>
          /\ \E i \in 0..(fallbackPositions - 1) :
                 ret'.result = -(i * symbolHeight)
          /\ UNCHANGED logicVars]_vars

\* the last fallback position, asked for a reel with loaded rows
C13_Witness ==
    /\ PositionAsked
    /\ ~ ret.found
    /\ Len(AskedList) > 0
    /\ ret.result = -((fallbackPositions - 1) * symbolHeight)

\* C14: for a non-empty reel list, visibleRows >= 1 and a position that is
\* a multiple of symbolHeight of any sign, getQuestionFromPosition returns
\* the list member at index (topIndex + centerOffset) mod length; a list of
\* length 1 always gives its single row.
C14_RowIsListMember ==
    (RowAsked /\ Len(RowNumbers(ret.reelType)) > 0) =>
        LET rows == RowNumbers(ret.reelType)
            topIndex == Abs(ret.position) \div symbolHeight
        IN /\ ret.result # None
           /\ \E i \in 1..Len(rows) : ret.result = Some(rows[i])
           /\ ret.result =
                  Some(rows[((topIndex + visibleRows \div 2) % Len(rows)) + 1])
           /\ Len(rows) = 1 => ret.result = Some(rows[1])

\* a positive position read on a list shorter than the fallback range, with
\* more visible rows than the list has rows
C14_Witness ==
    /\ RowAsked
    /\ ret.position = (fallbackPositions - 1) * symbolHeight
    /\ Len(RowNumbers(ret.reelType)) = 3
    /\ visibleRows > 3
    /\ ret.result = Some(RowNumbers(ret.reelType)[2])

----------------------------------------------------------------------------
(* Properties of the answer choices *)

\* the row number of the answer sheet of the last successful selection
ActiveRowNumber == picked[Len(picked)] + 2

\* C8: while a question is active, judgeAnswer(p) returns isCorrect = TRUE
\* iff p is Ans_D/<row>.png for the row of the active question, returns that
\* path as the correct one for every p, and changes no SlotLogic state.
C8_JudgeComparesWithCorrectPath ==
    [][(ret'.op = "judgeAnswer" /\ picked # <<>>) =>
          /\ ret'.result.isCorrect <=>
                 (ret'.selectedImagePath = <<"Ans_D/", ActiveRowNumber>>)
          /\ ret'.result.correctImagePath = Some(<<"Ans_D/", ActiveRowNumber>>)
          /\ UNCHANGED logicVars]_vars

\* a wrong choice of the active question was submitted after a later
\* selection had failed
C8_Witness ==
    /\ ret.op = "judgeAnswer"
    /\ picked # <<>>
    /\ ans = BlankTable
    /\ ret.selectedImagePath = <<"Ans_E/", ActiveRowNumber>>
    /\ ~ ret.result.isCorrect

\* C9: before any question has been selected, judgeAnswer returns
\* isCorrect = FALSE and a null correct path and changes no state.
C9_JudgeWithoutQuestion ==
    [][(ret'.op = "judgeAnswer" /\ picked = <<>>) =>
          /\ ret'.result.isCorrect = FALSE
          /\ ret'.result.correctImagePath = None
          /\ UNCHANGED logicVars]_vars

C9_Witness ==
    /\ ret.op = "judgeAnswer"
    /\ picked = <<>>
    /\ isDataReady
    /\ ret.selectedImagePath = <<"Ans_D/", 2>>

\* C10: while a question is active, generateAnswerChoices returns 3 choices
\* that are a permutation of Ans_D/<row>.png flagged correct and
\* Ans_E/<row>.png, Ans_F/<row>.png flagged incorrect.
C10_ChoicesArePermutation ==
    (ret.op = "generateAnswerChoices" /\ picked # <<>>) =>
        /\ Len(ret.result) = 3
        /\ {ret.result[i] : i \in 1..3} =
              { [imagePath |-> <<"Ans_D/", ActiveRowNumber>>, isCorrect |-> TRUE],
                [imagePath |-> <<"Ans_E/", ActiveRowNumber>>, isCorrect |-> FALSE],
                [imagePath |-> <<"Ans_F/", ActiveRowNumber>>, isCorrect |-> FALSE] }
        /\ Cardinality({i \in 1..3 : ret.result[i].isCorrect}) = 1
        /\ Cardinality({i \in 1..3 : ~ ret.result[i].isCorrect}) = 2

\* a shuffle that moved the correct choice to the last place
C10_Witness ==
    /\ ret.op = "generateAnswerChoices"
    /\ picked # <<>>
    /\ Len(ret.result) = 3
    /\ ret.result[3].isCorrect
    /\ ret.result[1].imagePath = <<"Ans_F/", ActiveRowNumber>>

\* the verdict of judgeAnswer on the choices generateAnswerChoices returned
JudgedCorrect ==
    { i \in 1..Len(ret.result) :
          JudgeResult(currentAnswer, currentAnsRowNumber,
                      ret.result[i].imagePath).isCorrect }

\* C21: after any successful and failed selections, the question that
\* generateAnswerChoices and judgeAnswer use is the one of the last
\* successful selection (row number = chosen index + 2); judgeAnswer judges
\* exactly one of the generated choices correct, the one flagged isCorrect.
C21_ActiveQuestionIsLastSelected ==
    picked # <<>> =>
        /\ currentAnsRowNumber = Some(ActiveRowNumber)
        /\ currentAnswer # None
        /\ ret.op = "generateAnswerChoices" =>
               /\ Cardinality(JudgedCorrect) = 1
               /\ \A i \in 1..Len(ret.result) :
                      ret.result[i].isCorrect <=> i \in JudgedCorrect

\* choices generated for the second question of the two-row table: the
\* history holds both rows, so selections fail from then on; the correct
\* choice was shuffled to the middle
C21_Witness ==
    /\ ret.op = "generateAnswerChoices"
    /\ Len(picked) = 2
    /\ Len(recentQuestions) = 2
    /\ ans = BlankTable
    /\ Len(ret.result) = 3
    /\ ret.result[2].isCorrect
    /\ 2 \in JudgedCorrect

----------------------------------------------------------------------------
(* Properties of the combination generator *)

Generated == ret.op = "generateProblems" /\ ret.status = "success"

\* the workbook the last generateProblems call found, and what it returned
BookBefore == ret.before[1]
Problems == ret.result[1].problems

RowTriple(problem) == <<problem.row_L, problem.row_C, problem.row_R>>
ProblemTriples == { RowTriple(Problems[n]) : n \in 1..Len(Problems) }

\* the integer pairs of a constraint sheet, the integer triples of the Ans
\* sheet, the integer tag of a sheet row (NaN when it has none)
PairsOf(sheet) ==
    { <<ParseIntValue(sheet[n].A), ParseIntValue(sheet[n].B)>> :
          n \in 1..Len(sheet) }
TriplesOf(sheet) ==
    { <<ParseIntValue(sheet[n].A), ParseIntValue(sheet[n].B),
        ParseIntValue(sheet[n].C)>> : n \in 1..Len(sheet) }
TagOf(sheet, row) == ParseIntValue(getCellValue(sheet, "A", row))

\* the row triples, out of the given rows of the three question sheets,
\* whose tags are integers that satisfy the three constraints and that the
\* Ans sheet does not hold
Combinable(book, rowsL, rowsC, rowsR) ==
    { t \in rowsL \X rowsC \X rowsR :
        /\ TagOf(book.Que_L, t[1]) # NaN
        /\ TagOf(book.Que_C, t[2]) # NaN
        /\ TagOf(book.Que_R, t[3]) # NaN
        /\ <<TagOf(book.Que_L, t[1]), TagOf(book.Que_C, t[2])>>
               \in PairsOf(book.LC)
        /\ <<TagOf(book.Que_L, t[1]), TagOf(book.Que_R, t[3])>>
               \in PairsOf(book.LR)
        /\ <<TagOf(book.Que_C, t[2]), TagOf(book.Que_R, t[3])>>
               \in PairsOf(book.CR)
        /\ <<Some(t[1]), Some(t[2]), Some(t[3])>> \notin TriplesOf(book.Ans) }

\* the rows of the entries of a list read from a sheet, the rows of a sheet
EntryRows(data) == { n + 1 : n \in 1..Len(data) }
SheetRows(sheet) == { n + 1 : n \in 1..Len(sheet) }

LexLess(s, t) ==
    \/ s[1] < t[1]
    \/ s[1] = t[1] /\ s[2] < t[2]
    \/ s[1] = t[1] /\ s[2] = t[2] /\ s[3] < t[3]

\* C15: generateCombinations returns, in lexicographic order of the list
\* indices (i, j, k), exactly the row triples (i+2, j+2, k+2) of the entries
\* of the three lists whose integer tags satisfy LC, LR and CR and that the
\* Ans table does not hold, each once; count is the length of the list.
C15_ExactlyValidTriplesInOrder ==
    Generated =>
        /\ ProblemTriples =
               Combinable(BookBefore,
                          EntryRows(loadSheetData(BookBefore.Que_L)),
                          EntryRows(loadSheetData(BookBefore.Que_C)),
                          EntryRows(loadSheetData(BookBefore.Que_R)))
        /\ \A m, n \in 1..Len(Problems) :
               m < n => LexLess(RowTriple(Problems[m]), RowTriple(Problems[n]))
        /\ ret.result[1].count = Len(Problems)

\* triples were generated that skip a triple the Ans sheet holds and a
\* triple the constraints exclude
C15_Witness ==
    /\ Generated
    /\ Len(Problems) >= 3
    /\ <<2, 2, 2>> \notin ProblemTriples
    /\ <<2, 2, 4>> \in ProblemTriples
    /\ <<2, 2, 3>> \notin ProblemTriples
    /\ Len(BookBefore.Ans) = 2

\* C16: generateCombinations writes the generated triples into consecutive
\* Ans rows starting right after the last Ans row that existed, overwriting
\* no existing row in columns A to C and leaving no gap.
C16_AppendsAfterLastRow ==
    Generated =>
        LET old == BookBefore.Ans
            new == workbook[1].Ans
        IN /\ Len(new) = Len(old) + Len(Problems)
           /\ \A n \in 1..Len(old) :
                  /\ n <= Len(new)
                  /\ new[n].A = old[n].A
                  /\ new[n].B = old[n].B
                  /\ new[n].C = old[n].C
           /\ \A m \in 1..Len(Problems) :
                  /\ Len(old) + m <= Len(new)
                  /\ new[Len(old) + m].A = Some(String(Problems[m].row_L))
                  /\ new[Len(old) + m].B = Some(String(Problems[m].row_C))
                  /\ new[Len(old) + m].C = Some(String(Problems[m].row_R))

\* C17: a question sheet entry whose type tag is missing or non-numeric is
\* skipped: it is in no generated triple, no error is raised, and every
\* other entry of its sheet is still combined.
C17_DefectiveEntrySkipped ==
    (ret.op = "generateProblems" /\ ret.before # None) =>
        /\ ret.status = "success"
        /\ \A n \in 1..Len(Problems) :
               /\ TagOf(BookBefore.Que_L, Problems[n].row_L) # NaN
               /\ TagOf(BookBefore.Que_C, Problems[n].row_C) # NaN
               /\ TagOf(BookBefore.Que_R, Problems[n].row_R) # NaN
        /\ Combinable(BookBefore, SheetRows(BookBefore.Que_L),
                      SheetRows(BookBefore.Que_C), SheetRows(BookBefore.Que_R))
               \subseteq ProblemTriples

----------------------------------------------------------------------------
(* Properties of a round of the game *)

\* C18: when selectRandomQuestion fails inside startNextQuestion the round
\* does not continue: no reel is spinning, no reel stop is pending and no
\* answer choices are shown.
C18_FailedSelectionEndsRound ==
    SelectFailed =>
        /\ \A n \in 1..3 : ~ isSpinning[n]
        /\ stopTimeouts = <<>>
        /\ answerChoices.visibility # "visible"

\* C20: when the stop of a reel completes, the row recorded from the final
\* position is the row number of the question for that reel.
C20_StoppedRowIsQuestionRow ==
    ret.op = "stopAnimation" =>
        /\ ret.stoppedRowNumber = Some(ret.targetRowNumber)
        /\ currentQuestions[ret.reelIndex + 1] = Some(ret.targetRowNumber)

----------------------------------------------------------------------------
(* Properties of the ranking lists *)

\* by points descending, then by accuracy descending
SortedList(list) ==
    \A n \in 1..(Len(list) - 1) :
        \/ list[n].points > list[n + 1].points
        \/ /\ list[n].points = list[n + 1].points
           /\ list[n].accuracy >= list[n + 1].accuracy

\* C28: after any addCorrectAnswersEntry, addConsecutiveAnswersEntry and
\* clearRankings calls from empty rankings, each list has at most 15 entries
\* and is sorted by points descending, then by accuracy descending.
C28_ListsCappedAndSorted ==
    \A which \in {"correctAnswers", "consecutiveAnswers"} :
        /\ Len(rankings[which]) <= 15
        /\ SortedList(rankings[which])

\* an entry was added to a full list and fell off its end; the list holds
\* entries of different points and of equal points and different accuracy
C28_Witness ==
    /\ ret.op = "addCorrectAnswersEntry"
    /\ ret.rank = 16
    /\ Len(rankings.correctAnswers) = 15
    /\ rankings.correctAnswers[1].points = 2
    /\ rankings.correctAnswers[14].accuracy = 100
    /\ rankings.correctAnswers[15].accuracy = 50
    /\ Len(rankings.consecutiveAnswers) = 15

----------------------------------------------------------------------------
(* Properties of the rank-in videos *)

\* C26: after closeResultPopup and until the next playBackgroundVideo call,
\* hasPlayedOnce and isPlaying are false, whenever the promises of play()
\* are fulfilled or rejected and the ended and error events arrive.
C26_FlagsStayReset ==
    popupClosed => (~ hasPlayedOnce /\ ~ isPlaying)

----------------------------------------------------------------------------
(* Properties of a game *)

\* C29: the score keeps 0 <= consecutiveCorrect <= maxConsecutive <=
\* correctAnswers <= totalQuestions through every answer, start, restart,
\* reset and return to the menu.
C29_ScoreOrdered ==
    /\ 0 <= score.consecutiveCorrect
    /\ score.consecutiveCorrect <= score.maxConsecutive
    /\ score.maxConsecutive <= score.correctAnswers
    /\ score.correctAnswers <= score.totalQuestions

\* a wrong answer after a correct one, in a game that followed a restart
C29_Witness ==
    /\ ret.op = "selectAnswer"
    /\ score = [totalQuestions |-> 2, consecutiveCorrect |-> 0,
                correctAnswers |-> 1, maxConsecutive |-> 1]
    /\ gameStarted
    /\ popupClosed

\* C22: after endGame or endGameInterrupted and until the next startGame no
\* answer is scored and no question is started.
C22_NothingAfterTheEnd ==
    gameEnded => ret.op \notin {"selectAnswer", "selectRandomQuestion"}

\* C27: at most one countdown interval is active at any time, and it is
\* the one whose handle gameTimer holds, however startGame, its resumption
\* after the await, stopGame, endGame, restartGame and returnToMenu
\* interleave.
C27_OneCountdown ==
    /\ Cardinality(intervals) <= 1
    /\ \A h \in intervals : gameTimer = Some(h)

\* a startGame has resumed and started its countdown while another
\* startGame still waits at its await
C27_Witness ==
    /\ startGames = 1
    /\ Cardinality(intervals) = 1
    /\ gameStarted
    /\ ret.op = "selectRandomQuestion"
    /\ Len(picked) = 1

----------------------------------------------------------------------------
(* Properties of the rounds of a game *)

\* C30: between two consecutive startNextQuestion calls selectAnswer runs at
\* most once, so score.totalQuestions grows by at most 1, whatever keys and
\* choices the player presses.
C30_ScoredOnce ==
    /\ answered <= 1
    /\ ret.op = "selectAnswer" => answered = 1

\* the second question has been answered while a reel was still stopping
C30_Witness ==
    /\ ret.op = "selectAnswer"
    /\ answered = 1
    /\ Len(picked) = 2
    /\ score.totalQuestions = 2
    /\ stopAnimations # <<>>
    /\ answerChoices.visibility = "hidden"

\* C24: when the choices of a question are displayed, at least two reels
\* have completed a stop that began for that question.
C24_DisplayedAfterTwoOwnStops ==
    (ret.op = "stopAnimation" /\ ret.displayed) =>
        Cardinality({n \in 1..3 : ownCompleted[n]}) >= 2

----------------------------------------------------------------------------
(* Properties of the record of a score *)

ListNames == {"correctAnswers", "consecutiveAnswers"}

\* the scores a game of the model or a longer one can end with
Points == -1..(MaxRounds + 1)

\* C25: while a ranking list holds fewer than videoThreshold entries the
\* test for the top five is false for every score and a recordRanking call
\* leaves the list as it is; and a list that is empty stays empty in every
\* step of a game and in every recordRanking call: of all steps only
\* importRankings puts entries into it.
C25_ShortListStaysAsItIs ==
    [][\A which \in ListNames :
           /\ Len(rankings[which]) < videoThreshold =>
                  /\ \A points \in Points :
                         ~ IsTop5(rankings[which], points)
                  /\ ret'.op = "recordRanking" =>
                         rankings'[which] = rankings[which]
           /\ (rankings[which] = <<>> /\ ret'.op # "importRankings") =>
                  rankings'[which] = <<>>]_vars

\* the record of a game with two correct answers, under a name with white
\* space around it, on lists of four entries with one correct answer
\* each: nothing is added
C25_Witness ==
    /\ ret.op = "recordRanking"
    /\ ret.named
    /\ ret.prompted # Trim(ret.prompted)
    /\ ~ ret.added
    /\ Len(rankings.correctAnswers) = videoThreshold - 1
    /\ Len(rankings.consecutiveAnswers) = videoThreshold - 1
    /\ score.correctAnswers = 2
    /\ score.maxConsecutive = 2
    /\ rankingButtons = "none"

====
